---- MODULE Spec2Model ----
(***************************************************************************)
(* confb: configuration blender daemon.                                    *)
(*                                                                         *)
(* Part I   - the watch loop of internal/daemon (Run, buildStates,         *)
(*            buildWatcher, flush, the debounce timers and the signals).   *)
(* Part II  - the atomic writer of internal/exec (WriteAtomic).            *)
(* Part III - the target builder and the blenders of internal/blend.       *)
(* Part IV  - the planner of internal/plan (PlanTarget).                   *)
(***************************************************************************)
EXTENDS Integers, Sequences, FiniteSets, TLC

(***************************************************************************)
(* Bounds of the model.                                                    *)
(***************************************************************************)
\* number of modifications the environment makes to source files
MaxEdits == 2
\* number of signals the environment sends to the process
MaxSignals == 3
\* length of the longest file content WriteAtomic is given or replaces
MaxLen == 2
\* number of files a target of the builder is planned with
MaxFiles == 2
\* length of the longest file the concat path reads
MaxChars == 3
\* number of top-level blocks of a KDL fragment, of lines of an INI file
MaxBlocks == 2
MaxLines == 3
\* sources of a target
MaxSources == 2
\* elements of an array given to uniqueAppend
MaxElems == 2
\* timer callbacks started in one run of the daemon
MaxFlushes == 3
\* modifications and signals together
MaxEnv == 4

(***************************************************************************)
(* Program constants.                                                      *)
(***************************************************************************)
\* sigc := make(chan os.Signal, 2)
SigChanCap == 2

(***************************************************************************)
(* Helpers on sequences.                                                   *)
(***************************************************************************)
Range(s) == {s[i] : i \in DOMAIN s}

(***************************************************************************)
(* Part I.  The watch loop.                                                *)
(*                                                                         *)
(* The filesystem holds one source file per source directory.  A source    *)
(* file is missing (PlanTarget fails on os.Stat), unreadable as its format *)
(* (the builder fails: invalid UTF-8 or a parse error), or holds one of    *)
(* the valid contents.                                                     *)
(***************************************************************************)
Dirs == {"d1", "d2"}
Outputs == {"o1", "o2", "o3"}
Contents == {"x", "y"}
FileStates == Contents \cup {"missing", "bad"}
ExitSignals == {"INT", "TERM"}
Signals == ExitSignals \cup {"HUP"}

\* config.Target: sources (one file per directory, in order), output path,
\* merge rules ("" when the target has no merge block) and whether on_change
\* is non-empty.
TargetA == [name |-> "a", sources |-> <<"d1">>, output |-> "o1",
            merge |-> "", onChange |-> TRUE]
TargetB == [name |-> "b", sources |-> <<"d2">>, output |-> "o2",
            merge |-> "last_wins", onChange |-> FALSE]
TargetB2 == [name |-> "b", sources |-> <<"d2">>, output |-> "o2",
             merge |-> "append", onChange |-> TRUE]

\* a target whose output lies in the directory of its source
TargetC == [name |-> "c", sources |-> <<"d1">>, output |-> "o3",
            merge |-> "last_wins", onChange |-> TRUE]

\* filepath.Dir of an output path: o1 and o2 lie in a directory of their
\* own, which holds no source
OutDir(o) == IF o = "o3" THEN "d1" ELSE "out"

\* The configurations the configuration file can hold: Configs[c] is the
\* target list of configuration c.
Configs == << <<TargetA, TargetB>>, <<TargetB2>>, <<TargetC>>, <<TargetC, TargetB>> >>

\* the configurations the file of a run started with configuration c can be
\* changed to: the outputs stay where they are
Loadable(c) == IF c \in {3, 4} THEN {c} ELSE {1, 2}

VARIABLES
  pc,            \* position of the goroutine that runs Run
  cfg,           \* Run's cfg: index into Configs
  gen,           \* number of `states` slices installed so far (0: none yet)
  heap,          \* heap[g]: the tstate objects of the g-th `states` slice
  watcher,       \* Run's w: [dirs, open]
  dirToTargets,  \* Run's routing map: directory -> sequence of indices
  timers,        \* Run's timers slice
  orphans,       \* armed timers no slot of `timers` refers to any more
  flushes,       \* the timer callbacks started so far, in start order
  events,        \* w.Events: directories of the undelivered events
  sigc,          \* the signal channel
  newCfg,        \* buildStates' argument c
  newStates,     \* buildStates' states under construction
  bsCur,         \* buildStates' (content, checksum, merged) of the target at hand
  newWatcher,    \* the watcher a reload has registered: [dirs, open, events]
  srcs,          \* filesystem: state of the source file of each directory
  outs,          \* filesystem: content of each output path
  edits,         \* modifications made by the environment so far
  sigs,          \* signals sent by the environment so far
  exitSent,      \* an exit signal has been delivered to the process
  stopped,       \* history: the target indices whose pending timer the last
                 \* SIGHUP case handled has stopped
  trace          \* what the last step did that can be seen from outside:
                 \* the on_change hook it ran, the rebuild that returned

daemonVars == <<pc, cfg, gen, heap, watcher, dirToTargets, timers, orphans,
                flushes, events, sigc, newCfg, newStates, bsCur, newWatcher, srcs,
                outs, edits, sigs, exitSent, stopped, trace>>

\* Part II: one call WriteAtomic(outputPath, content) and a concurrent reader
VARIABLES
  wpc,           \* position of WriteAtomic
  disk,          \* the output directory: [dir: name -> inode or 0, ino: contents]
  wfd,           \* tmp: the inode WriteAtomic has open (0: none)
  wbuf,          \* the bytes the bufio.Writer holds
  wnew,          \* the argument `content`
  wprior,        \* what outputPath held when WriteAtomic was called
  rfd,           \* the inode the reader has open (0: none)
  rseen,         \* the bytes the reader has read from it
  rres           \* what the reader's last complete read returned

writeVars == <<wpc, disk, wfd, wbuf, wnew, wprior, rfd, rseen, rres>>

\* Part III: one target built twice
VARIABLES
  bIn,           \* the target and the contents of its planned files
  bOut,          \* bOut[e]: what execution e of the builder returned
  bMid           \* what the first execution serialized: the merged tree,
                 \* document or lines, or the normalized bytes

buildVars == <<bIn, bOut, bMid>>

\* Part IV: one call of PlanTarget
VARIABLES
  pIn,           \* the target and the filesystem snapshot
  pOut           \* what PlanTarget returned

planVars == <<pIn, pOut>>

vars == <<daemonVars, writeVars, buildVars, planVars>>

\* no reader result yet, and the result of reading a path that does not exist
NoRes == <<"none">>
Absent == <<"ENOENT">>

\* what the steps of the watch loop leave alone
others == <<writeVars, buildVars, planVars>>

\* Part III at rest
NoOut == [err |-> FALSE, bytes |-> "", sum |-> ""]
BuildIdle ==
  /\ bIn = [format |-> "", rules |-> <<>>, files |-> <<>>]
  /\ bOut = <<NoOut, NoOut>>
  /\ bMid = <<>>

\* Part IV at rest
NoPlan == [done |-> FALSE, err |-> FALSE, files |-> <<>>, deduped |-> <<>>]
PlanIdle ==
  /\ pIn = [sources |-> <<>>, dedupe |-> "", fs |-> <<>>]
  /\ pOut = NoPlan

\* Part II at rest, for the behaviours of the other parts
WriteIdle ==
  /\ wpc = "idle"
  /\ disk = [dir |-> [n \in {"out", "tmp"} |-> 0], ino |-> <<>>]
  /\ wfd = 0
  /\ wbuf = <<>>
  /\ wnew = <<>>
  /\ wprior = Absent
  /\ rfd = 0
  /\ rseen = <<>>
  /\ rres = NoRes

(***************************************************************************)
(* Pure functions of the daemon.                                           *)
(***************************************************************************)
\* sha256Hex / SHA256OfFiles' digest of a byte string
sha256Hex(content) == "sha256(" \o content \o ")"

RECURSIVE ConcatFiles(_, _)
ConcatFiles(files, fs) ==
  IF files = <<>> THEN ""
  ELSE fs[Head(files)] \o "\n" \o ConcatFiles(Tail(files), fs)

\* what readAndNormalize returns for the planned files, each holding one line
NormalizedConcat(files, fs) == ConcatFiles(files, fs)

\* the blenders, as the daemon sees them: bytes determined by rules and files
Blend(rules, files, fs) == rules \o "{" \o ConcatFiles(files, fs) \o "}"

\* plan.PlanTarget: the files of the target, or an error when one is missing
PlanOK(t, fs) == \A i \in DOMAIN t.sources : fs[t.sources[i]] # "missing"

\* the builders fail on a file they cannot read as text of the format
ReadOK(t, fs) == \A i \in DOMAIN t.sources : fs[t.sources[i]] \notin {"missing", "bad"}

IsMerged(t) == t.merge # ""

\* buildContentAndChecksum: (content, checksumHex, merged)
buildContentAndChecksum(t, fs) ==
  IF IsMerged(t)
  THEN [content |-> Blend(t.merge, t.sources, fs),
        sum |-> sha256Hex(Blend(t.merge, t.sources, fs)), merged |-> TRUE]
  ELSE [content |-> "",
        sum |-> sha256Hex(NormalizedConcat(t.sources, fs)), merged |-> FALSE]

\* computeWatchDirs: the parent directories of the target's sources
computeWatchDirs(t) == Range(t.sources)

\* buildWatcher's routing map: for each directory the indices watching it
RECURSIVE IndicesOf(_, _, _)
IndicesOf(d, states, i) ==
  IF i > Len(states) THEN <<>>
  ELSE (IF d \in states[i].watchSet THEN <<i>> ELSE <<>>) \o IndicesOf(d, states, i + 1)

RoutingOf(states) == [d \in Dirs |-> IndicesOf(d, states, 1)]

GlobalDirs(states) == UNION {states[i].watchSet : i \in DOMAIN states}

\* fsnotify events carry the name of the file; the model keeps its
\* directory and, for an event caused by a write of the daemon itself, what
\* was written: <<generation, index, checksum>> of the target state the
\* write was for (External: a change made by the environment)
External == <<>>
Event(d, by) == [dir |-> d, by |-> by]

NilTimer == [st |-> "nil", n |-> 0, during |-> {}, by |-> External]
FreshTimers(n) == [i \in 1..n |-> NilTimer]

NoCur == [content |-> "", sum |-> "", merged |-> FALSE]

\* the current `states` slice
States == IF gen = 0 THEN <<>> ELSE heap[gen]

Alive == pc # "panic"

\* a step that runs no hook and ends no rebuild
Quiet == [hook |-> "", idx |-> 0, outcome |-> ""]
RanHook(name) == [hook |-> name, idx |-> 0, outcome |-> ""]
Ended(i, how) == [hook |-> "", idx |-> i, outcome |-> how]

\* what a reload logs when it ends (run.go 270, 276, 282, 294); the initial
\* build logs nothing of the kind
ReloadLog(what) == IF gen = 0 THEN Quiet ELSE Ended(0, what)

\* Run called with configuration c, the environment having made e of its
\* modifications and sent g of its signals
DaemonStart(c, e, g) ==
  /\ pc = "bs_build"
  /\ cfg = c
  /\ gen = 0
  /\ heap = <<>>
  /\ watcher = [dirs |-> {}, open |-> FALSE]
  /\ dirToTargets = [d \in Dirs |-> <<>>]
  /\ timers = <<>>
  /\ orphans = <<>>
  /\ flushes = <<>>
  /\ events = <<>>
  /\ sigc = <<>>
  /\ newCfg = c
  /\ newStates = <<>>
  /\ bsCur = NoCur
  /\ newWatcher = [dirs |-> {}, open |-> FALSE, events |-> <<>>]
  /\ srcs = [d \in Dirs |-> "x"]
  /\ outs = [o \in Outputs |-> ""]
  /\ edits = e
  /\ sigs = g
  /\ exitSent = FALSE
  /\ stopped = {}
  /\ trace = Quiet

DaemonInit == DaemonStart(1, 0, 0)

Init == DaemonInit /\ WriteIdle /\ BuildIdle /\ PlanIdle

(***************************************************************************)
(* Granularity.  Run's goroutine and the timer callbacks share `states`,   *)
(* `cfg`, the lastSum of every tstate and the filesystem, and the          *)
(* callbacks hold no lock inside flush.  Each step below makes at most one *)
(* access to what another goroutine or the environment can change: one     *)
(* read or write of a shared variable, or one operation on the files.      *)
(* `states` and `cfg` are written by Run without mu while callbacks read   *)
(* them: a read that races with the write of `states` returns the old or   *)
(* the new slice header, or a mix of the two whose bounds check or element *)
(* load fails exactly when that of the old or of the new slice does; the   *)
(* sums are strings of one length, so the same holds for lastSum.  The     *)
(* interleavings of these steps are the outcomes of the races.             *)
(***************************************************************************)

\* where Run's goroutine can be while the process lives
LoopPcs == {"select", "reload", "bs_build", "bs_write", "bs_rename", "bs_hook", "bs_dirs",
            "bs_watch", "swap_states", "swap_cfg"}

(***************************************************************************)
(* buildStates (run.go 62-111), one target per pass: plan and build, the   *)
(* write, the hook, then computeWatchDirs and the append.  It runs on      *)
(* Run's goroutine, for the initial build (gen = 0) and for every reload.  *)
(***************************************************************************)
BsIndex == Len(newStates) + 1
BsTarget == Configs[newCfg][BsIndex]

\* a reload whose failure ends Run
AfterBuildErrorReturns == "returned_err"

\* where Run goes when buildStates or buildWatcher returns an error: the
\* initial build returns the error, a reload logs it and keeps the old state
AfterBuildError == IF gen = 0 THEN "returned_err" ELSE "select"

\* the bytes a write of target t puts at its output: the built content on the
\* merge path, what BuildAndWrite reads now on the concat path
WrittenBytes(t, content, fs) ==
  IF IsMerged(t) THEN content ELSE NormalizedConcat(t.sources, fs)

\* whether the write can succeed: BuildAndWrite reads the files again
WriteReadable(t, fs) == IsMerged(t) \/ ReadOK(t, fs)

\* the watcher reports what happens in a directory it watches
Notify(evs, d, by) ==
  IF watcher.open /\ d \in watcher.dirs THEN Append(evs, Event(d, by)) ELSE evs

\* so does the watcher a reload has registered and not installed yet
NotifyNew(w, d, by) ==
  IF w.open /\ d \in w.dirs THEN [w EXCEPT !.events = Append(@, Event(d, by))] ELSE w

\* the directory of the output is watched: what WriteAtomic does in it is
\* reported to the loop
Reported(o) ==
  OutDir(o) \in (IF watcher.open THEN watcher.dirs ELSE {})
                 \cup (IF newWatcher.open THEN newWatcher.dirs ELSE {})

\* A write is two steps when something can come between its parts: on the
\* concat path BuildAndWrite reads the sources before WriteAtomic renames,
\* in a watched directory the temporary file is reported before the rename.
TwoStage(t) == ~IsMerged(t) \/ Reported(t.output)

\* buildStates returns an error
BuildStatesFails ==
  /\ pc' = AfterBuildError
  /\ newStates' = <<>>
  /\ newCfg' = cfg
  /\ bsCur' = NoCur
  /\ trace' = ReloadLog("reload build error")

\* plan.PlanTarget(c, t, "") and buildContentAndChecksum(t, rt.Files)
BuildStatesPlan ==
  /\ pc = "bs_build"
  /\ IF PlanOK(BsTarget, srcs) /\ ReadOK(BsTarget, srcs)
     THEN /\ bsCur' = buildContentAndChecksum(BsTarget, srcs)
          /\ pc' = "bs_write"
          /\ UNCHANGED <<newStates, newCfg>>
          /\ trace' = Quiet
     ELSE BuildStatesFails
  /\ UNCHANGED <<cfg, gen, heap, watcher, dirToTargets, timers, orphans, flushes,
                 events, sigc, newWatcher, srcs, outs, edits, sigs, exitSent, stopped>>
  /\ UNCHANGED others

\* the first part of a write of two steps: BuildAndWrite reads the files,
\* WriteAtomic creates its temporary file (part_010 28-36)
BuildStatesRead ==
  /\ pc = "bs_write"
  /\ TwoStage(BsTarget)
  /\ \E ioOK \in BOOLEAN :
       IF ioOK /\ WriteReadable(BsTarget, srcs)
       THEN /\ bsCur' = [bsCur EXCEPT !.content =
                            WrittenBytes(BsTarget, bsCur.content, srcs)]
            /\ events' = Notify(events, OutDir(BsTarget.output),
                                <<gen + 1, BsIndex, bsCur.sum>>)
            /\ pc' = "bs_rename"
            /\ trace' = Quiet
            /\ UNCHANGED <<newStates, newCfg>>
       ELSE /\ BuildStatesFails
            /\ UNCHANGED events
  /\ UNCHANGED <<cfg, gen, heap, watcher, dirToTargets, timers, orphans, flushes,
                 sigc, newWatcher, srcs, outs, edits, sigs, exitSent, stopped>>
  /\ UNCHANGED others

\* executor.WriteAtomic / executor.BuildAndWrite (run.go 77-87): the rename
\* puts the bytes at the output.  A write that fails once its temporary file
\* exists removes the file (part_010 40-66), which the watcher reports as it
\* reports the rename.
BuildStatesWrite ==
  /\ pc \in {"bs_write", "bs_rename"}
  /\ pc = "bs_write" => ~TwoStage(BsTarget)
  /\ \E ioOK \in BOOLEAN :
       IF ioOK
       THEN /\ outs' = [outs EXCEPT ![BsTarget.output] = bsCur.content]
            /\ events' = Notify(events, OutDir(BsTarget.output),
                                <<gen + 1, BsIndex, bsCur.sum>>)
            /\ pc' = IF BsTarget.onChange THEN "bs_hook" ELSE "bs_dirs"
            /\ trace' = Quiet
            /\ UNCHANGED <<newStates, newCfg, bsCur>>
       ELSE /\ BuildStatesFails
            /\ events' = Notify(events, OutDir(BsTarget.output),
                                <<gen + 1, BsIndex, bsCur.sum>>)
            /\ UNCHANGED outs
  /\ UNCHANGED <<cfg, gen, heap, watcher, dirToTargets, timers, orphans, flushes,
                 sigc, newWatcher, srcs, edits, sigs, exitSent, stopped>>
  /\ UNCHANGED others

\* runOnChange(t, rt.Output, ...) (run.go 89-91): Run waits for the command
BuildStatesHook ==
  /\ pc = "bs_hook"
  /\ pc' = "bs_dirs"
  /\ trace' = RanHook(BsTarget.name)
  /\ UNCHANGED <<cfg, gen, heap, watcher, dirToTargets, timers, orphans, flushes,
                 events, sigc, newCfg, newStates, bsCur, newWatcher, srcs, outs,
                 edits, sigs, exitSent, stopped>>
  /\ UNCHANGED others

\* computeWatchDirs(c, t), which fails when the directory of the
\* configuration file is gone, and the append (run.go 93-108)
BuildStatesAppend ==
  /\ pc = "bs_dirs"
  /\ \E dirOK \in BOOLEAN :
       IF dirOK
       THEN /\ newStates' = Append(newStates,
                 [target |-> BsTarget, lastSum |-> bsCur.sum,
                  watchSet |-> computeWatchDirs(BsTarget)])
            /\ pc' = IF BsIndex = Len(Configs[newCfg]) THEN "bs_watch" ELSE "bs_build"
            /\ bsCur' = NoCur
            /\ trace' = Quiet
            /\ UNCHANGED newCfg
       ELSE BuildStatesFails
  /\ UNCHANGED <<cfg, gen, heap, watcher, dirToTargets, timers, orphans, flushes,
                 events, sigc, newWatcher, srcs, outs, edits, sigs, exitSent, stopped>>
  /\ UNCHANGED others

(***************************************************************************)
(* buildWatcher (run.go 113-135) and what follows it.  After the initial   *)
(* build Run starts its loop (156-171): no callback exists yet.  After a   *)
(* reload the new watcher reports from w.Add on, and Run assigns w,        *)
(* dirToTargets, states, cfg and timers one after the other (287-292);     *)
(* only `states` and `cfg` are read by other goroutines.                   *)
(***************************************************************************)
NoWatcher == [dirs |-> {}, open |-> FALSE, events |-> <<>>]

BuildWatcher ==
  /\ pc = "bs_watch"
  /\ \E watchOK \in BOOLEAN :
       IF ~watchOK
       THEN /\ pc' = AfterBuildError
            /\ newCfg' = cfg
            /\ newStates' = <<>>
            /\ trace' = ReloadLog("reload watcher error")
            /\ UNCHANGED <<gen, heap, cfg, watcher, dirToTargets, timers, events,
                           newWatcher>>
       ELSE IF gen = 0
       THEN /\ gen' = 1
            /\ heap' = <<newStates>>
            /\ watcher' = [dirs |-> GlobalDirs(newStates), open |-> TRUE]
            /\ dirToTargets' = RoutingOf(newStates)
            /\ timers' = FreshTimers(Len(newStates))
            /\ events' = <<>>
            /\ newStates' = <<>>
            /\ pc' = "select"
            /\ trace' = Quiet
            /\ UNCHANGED <<cfg, newCfg, newWatcher>>
       ELSE /\ newWatcher' = [dirs |-> GlobalDirs(newStates), open |-> TRUE,
                              events |-> <<>>]
            /\ pc' = "swap_states"
            /\ trace' = Quiet
            /\ UNCHANGED <<gen, heap, cfg, watcher, dirToTargets, timers, events,
                           newCfg, newStates>>
  /\ UNCHANGED <<orphans, flushes, sigc, bsCur, srcs, outs, edits, sigs, exitSent, stopped>>
  /\ UNCHANGED others

\* _ = w.Close(); w = newWatcher; dirToTargets = newDirToTargets;
\* states = newStates (run.go 287-290)
SwapStates ==
  /\ pc = "swap_states"
  /\ watcher' = [dirs |-> newWatcher.dirs, open |-> TRUE]
  /\ events' = newWatcher.events
  /\ newWatcher' = NoWatcher
  /\ dirToTargets' = RoutingOf(newStates)
  /\ gen' = gen + 1
  /\ heap' = Append(heap, newStates)
  /\ pc' = "swap_cfg"
  /\ trace' = Quiet
  /\ UNCHANGED <<cfg, timers, orphans, flushes, sigc, newCfg, newStates, bsCur,
                 srcs, outs, edits, sigs, exitSent, stopped>>
  /\ UNCHANGED others

\* cfg = newCfg; timers = make([]*time.Timer, len(states)) (run.go 291-294)
SwapCfg ==
  /\ pc = "swap_cfg"
  /\ cfg' = newCfg
  /\ timers' = FreshTimers(Len(States))
  /\ newStates' = <<>>
  /\ pc' = "select"
  /\ trace' = ReloadLog("reload complete")
  /\ UNCHANGED <<gen, heap, watcher, dirToTargets, orphans, flushes, events, sigc,
                 newCfg, bsCur, newWatcher, srcs, outs, edits, sigs, exitSent, stopped>>
  /\ UNCHANGED others

(***************************************************************************)
(* The event loop (run.go 216-297).                                        *)
(***************************************************************************)
\* a Stop that leaves the timer armed
StopForgotten(t) == t

\* time.Timer.Stop: an armed timer is deactivated
Stop(t) == IF t.st = "armed" THEN [t EXCEPT !.st = "stopped"] ELSE t

\* the positions of a callback inside flush: it has read states[idx] and has
\* not returned
FlushPcs == {"plan", "build", "compare", "write", "rename", "commit", "hook"}

\* the rebuilds of target index i that are running
InProgress(i) ==
  {k \in DOMAIN flushes : flushes[k].idx = i /\ flushes[k].pc \in FlushPcs}

\* the timers of the slots idxs that are still armed after Stop and lose
\* their slot: they stay armed in the runtime
RECURSIVE StillArmed(_, _)
StillArmed(ts, idxs) ==
  IF idxs = <<>> THEN <<>>
  ELSE (IF Head(idxs) \in DOMAIN ts /\ Stop(ts[Head(idxs)]).st = "armed"
        THEN << [idx |-> Head(idxs), n |-> ts[Head(idxs)].n,
                 during |-> ts[Head(idxs)].during, by |-> ts[Head(idxs)].by] >>
        ELSE <<>>) \o StillArmed(ts, Tail(idxs))

\* time.AfterFunc(opts.Debounce, ...) put into slot i (run.go 235-243) for
\* the event ev; the timer stands for the events of its burst, which are
\* those of one write of the daemon or not
Rearm(ts, i, ev) ==
  [st |-> "armed",
   n |-> (IF ts[i].st = "armed" THEN ts[i].n ELSE 0) + 1,
   during |-> InProgress(i),
   by |-> IF ts[i].st = "armed" /\ ts[i].by # ev.by THEN External ELSE ev.by]

\* case ev := <-w.Events
HandleEvent ==
  /\ pc = "select"
  /\ events # <<>>
  /\ LET indices == dirToTargets[Head(events).dir]
         hit == Range(indices) \cap DOMAIN timers
     IN /\ timers' = [i \in DOMAIN timers |->
                        IF i \in hit THEN Rearm(timers, i, Head(events)) ELSE timers[i]]
        /\ orphans' = orphans \o StillArmed(timers, indices)
  /\ events' = Tail(events)
  /\ trace' = Quiet
  /\ UNCHANGED <<pc, cfg, gen, heap, watcher, dirToTargets, flushes, sigc,
                 newCfg, newStates, bsCur, newWatcher, srcs, outs, edits, sigs,
                 exitSent, stopped>>
  /\ UNCHANGED others

\* case s := <-sigc, SIGINT or SIGTERM: cancel(), return nil.  The timers are
\* left as they are.  `defer w.Close()` (run.go 160) has bound its receiver
\* when it was executed: it closes the watcher of the initial build, which
\* is the current one only if no reload has replaced it.
HandleExit ==
  /\ pc = "select"
  /\ sigc # <<>>
  /\ Head(sigc) \in ExitSignals
  /\ sigc' = <<>>
  /\ pc' = "returned_nil"
  /\ watcher' = IF gen = 1 THEN [watcher EXCEPT !.open = FALSE] ELSE watcher
  /\ events' = <<>>
  /\ trace' = Quiet
  /\ UNCHANGED <<cfg, gen, heap, dirToTargets, timers, orphans, flushes, newCfg,
                 newStates, bsCur, newWatcher, srcs, outs, edits, sigs, exitSent, stopped>>
  /\ UNCHANGED others

SeqTo(n) == [i \in 1..n |-> i]

\* case s := <-sigc, SIGHUP, up to mu.Unlock() (run.go 254-266): under mu
\* every timer is stopped and its slot set to nil
HandleReload ==
  /\ pc = "select"
  /\ sigc # <<>>
  /\ Head(sigc) = "HUP"
  /\ sigc' = Tail(sigc)
  /\ timers' = [i \in DOMAIN timers |-> NilTimer]
  /\ orphans' = orphans \o StillArmed(timers, SeqTo(Len(timers)))
  /\ stopped' = {i \in DOMAIN timers : timers[i].st = "armed"}
  /\ pc' = "reload"
  /\ trace' = Quiet
  /\ UNCHANGED <<cfg, gen, heap, watcher, dirToTargets, flushes, events, newCfg,
                 newStates, bsCur, newWatcher, srcs, outs, edits, sigs, exitSent>>
  /\ UNCHANGED others

\* newCfg, err := reloadConfig() and the branch on err (run.go 268-272):
\* config.Load reads the configuration file; c = 0 stands for a file it
\* rejects
ReloadConfig ==
  /\ pc = "reload"
  /\ \E c \in {0} \cup Loadable(cfg) :
       IF c = 0
       THEN /\ pc' = "select"
            /\ trace' = ReloadLog("reload error")
            /\ UNCHANGED newCfg
       ELSE /\ newCfg' = c
            /\ pc' = "bs_build"
            /\ trace' = Quiet
  /\ newStates' = <<>>
  /\ UNCHANGED <<cfg, gen, heap, watcher, dirToTargets, timers, orphans, flushes,
                 events, sigc, bsCur, newWatcher, srcs, outs, edits, sigs, exitSent,
                 stopped>>
  /\ UNCHANGED others

(***************************************************************************)
(* The debounce timers and their callbacks.  A timer that expires starts   *)
(* its callback on a goroutine of its own (time.AfterFunc), which runs     *)
(* flush(i) (run.go 174-213).  The callback takes and releases mu before   *)
(* flush: the loop holds mu only inside HandleEvent and HandleReload,      *)
(* which are single steps here, so the lock never delays a callback.       *)
(* Time is abstract: an armed timer may expire at any later step, a        *)
(* rebuild (its hook may run for 20 s) may take longer than the debounce.  *)
(***************************************************************************)
NewFlush(i, t) ==
  [idx |-> i, pc |-> "start", st |-> 0, cfgv |-> 0, sum |-> "", content |-> "",
   burst |-> t.n, during |-> t.during, by |-> t.by]

\* a callback that has returned
Returned ==
  [idx |-> 0, pc |-> "done", st |-> 0, cfgv |-> 0, sum |-> "", content |-> "",
   burst |-> 0, during |-> {}, by |-> External]

OrphansOf(i) == {k \in DOMAIN orphans : orphans[k].idx = i}
Min(S) == CHOOSE x \in S : \A y \in S : x <= y
RemoveAt(s, k) == [j \in 1..(Len(s) - 1) |-> IF j < k THEN s[j] ELSE s[j + 1]]

\* the target indices a timer of the runtime belongs to
TimerSlots == DOMAIN timers \cup {orphans[k].idx : k \in DOMAIN orphans}

TimerFire(i) ==
  /\ Alive
  /\ Len(flushes) < MaxFlushes
  /\ IF OrphansOf(i) # {}
     THEN /\ flushes' = Append(flushes, NewFlush(i, orphans[Min(OrphansOf(i))]))
          /\ orphans' = RemoveAt(orphans, Min(OrphansOf(i)))
          /\ UNCHANGED timers
     ELSE /\ i \in DOMAIN timers
          /\ timers[i].st = "armed"
          /\ flushes' = Append(flushes, NewFlush(i, timers[i]))
          /\ timers' = [timers EXCEPT ![i] = [st |-> "fired", n |-> 0, during |-> {},
                                              by |-> External]]
          /\ UNCHANGED orphans
  /\ trace' = Quiet
  /\ UNCHANGED <<pc, cfg, gen, heap, watcher, dirToTargets, events, sigc, newCfg,
                 newStates, bsCur, newWatcher, srcs, outs, edits, sigs, exitSent, stopped>>
  /\ UNCHANGED others

\* what the steps of a callback leave alone: all that belongs to Run's
\* goroutine and to the environment
loopVars == <<pc, cfg, gen, watcher, dirToTargets, timers, orphans, sigc, newCfg,
              newStates, bsCur, srcs, edits, sigs, exitSent, stopped>>

\* mu.Lock(); mu.Unlock(); st := states[idx] - an index out of range panics
FlushStart(k) ==
  /\ Alive
  /\ flushes[k].pc = "start"
  /\ IF flushes[k].idx > Len(States)
     THEN /\ pc' = "panic"
          /\ UNCHANGED flushes
     ELSE /\ flushes' = [flushes EXCEPT ![k].pc = "plan", ![k].st = gen]
          /\ UNCHANGED pc
  /\ trace' = Quiet
  /\ UNCHANGED <<cfg, gen, heap, watcher, dirToTargets, timers, orphans, events,
                 sigc, newCfg, newStates, bsCur, newWatcher, srcs, outs, edits,
                 sigs, exitSent, stopped>>
  /\ UNCHANGED others

FlushState(f) == heap[f.st][f.idx]

\* a rebuild that logs and goes on to the write
FlushLogsOnly(k, how) ==
  /\ flushes' = [flushes EXCEPT ![k].pc = "write"]
  /\ trace' = Ended(flushes[k].idx, how)

\* rebuild k returns at once, logging how
FlushReturns(k, how) ==
  /\ flushes' = [flushes EXCEPT ![k] = Returned]
  /\ trace' = Ended(flushes[k].idx, how)

\* rt, err := plan.PlanTarget(cfg, t, "") (run.go 178-182): reads cfg and
\* looks the sources up
FlushPlan(k) ==
  /\ Alive
  /\ flushes[k].pc = "plan"
  /\ IF PlanOK(FlushState(flushes[k]).target, srcs)
     THEN /\ flushes' = [flushes EXCEPT ![k].pc = "build", ![k].cfgv = cfg]
          /\ trace' = Quiet
     ELSE FlushReturns(k, "planerr")
  /\ UNCHANGED <<loopVars, heap, events, newWatcher, outs>>
  /\ UNCHANGED others

\* content, checksum, merged, err := buildContentAndChecksum(t, rt.Files)
\* (run.go 184-188): reads the planned files
FlushBuild(k) ==
  /\ Alive
  /\ flushes[k].pc = "build"
  /\ LET t == FlushState(flushes[k]).target
         r == buildContentAndChecksum(t, srcs)
     IN IF ReadOK(t, srcs)
        THEN /\ flushes' = [flushes EXCEPT ![k].pc = "compare", ![k].sum = r.sum,
                                           ![k].content = r.content]
             /\ trace' = Quiet
        ELSE FlushReturns(k, "builderr")
  /\ UNCHANGED <<loopVars, heap, events, newWatcher, outs>>
  /\ UNCHANGED others

\* a comparison that never finds the sums equal
SameSumNever(sum, st) == FALSE

\* checksum == st.lastSum
SameSum(sum, st) == sum = st.lastSum

\* if checksum == st.lastSum { return } (run.go 190-195): reads the lastSum
\* the tstate holds now
FlushCompare(k) ==
  /\ Alive
  /\ flushes[k].pc = "compare"
  /\ IF SameSum(flushes[k].sum, FlushState(flushes[k]))
     THEN FlushReturns(k, "unchanged")
     ELSE /\ flushes' = [flushes EXCEPT ![k].pc = "write"]
          /\ trace' = Quiet
  /\ UNCHANGED <<loopVars, heap, events, newWatcher, outs>>
  /\ UNCHANGED others

\* The first part of a write of two steps: BuildAndWrite reads the files,
\* WriteAtomic creates its temporary file in the directory of the output
\* (os.CreateTemp(filepath.Dir(outputPath), ...)), which a watcher of that
\* directory reports while the write goes on (write, flush, fsync, close).
FlushCreateTemp(k) ==
  /\ Alive
  /\ flushes[k].pc = "write"
  /\ TwoStage(FlushState(flushes[k]).target)
  /\ LET f == flushes[k]
         t == FlushState(f).target
     IN \E ioOK \in BOOLEAN :
          IF ioOK /\ WriteReadable(t, srcs)
          THEN /\ flushes' = [flushes EXCEPT ![k].pc = "rename",
                                             ![k].content = WrittenBytes(t, f.content, srcs)]
               /\ events' = Notify(events, OutDir(t.output), <<f.st, f.idx, f.sum>>)
               /\ newWatcher' = NotifyNew(newWatcher, OutDir(t.output),
                                          <<f.st, f.idx, f.sum>>)
               /\ trace' = Quiet
          ELSE /\ FlushReturns(k, "writeerr")
               /\ UNCHANGED <<events, newWatcher>>
  /\ UNCHANGED <<loopVars, heap, outs>>
  /\ UNCHANGED others

\* executor.WriteAtomic(rt.Output, content) or executor.BuildAndWrite(rt.Output,
\* rt.Files) (run.go 196-206): the rename puts the bytes at the output, and a
\* watcher of its directory reports it.  A write that fails once its
\* temporary file exists (write, flush, fsync, close or rename, part_010
\* 40-66) removes the file, and a watcher of the directory reports that.
FlushWrite(k) ==
  /\ Alive
  /\ flushes[k].pc \in {"write", "rename"}
  /\ flushes[k].pc = "write" => ~TwoStage(FlushState(flushes[k]).target)
  /\ LET f == flushes[k]
         t == FlushState(f).target
     IN \E ioOK \in BOOLEAN :
          IF ioOK
          THEN /\ outs' = [outs EXCEPT ![t.output] = f.content]
               /\ events' = Notify(events, OutDir(t.output), <<f.st, f.idx, f.sum>>)
               /\ newWatcher' = NotifyNew(newWatcher, OutDir(t.output),
                                          <<f.st, f.idx, f.sum>>)
               /\ flushes' = [flushes EXCEPT ![k].pc = "commit"]
               /\ trace' = Quiet
          ELSE /\ FlushReturns(k, "writeerr")
               /\ events' = Notify(events, OutDir(t.output), <<f.st, f.idx, f.sum>>)
               /\ newWatcher' = NotifyNew(newWatcher, OutDir(t.output),
                                          <<f.st, f.idx, f.sum>>)
               /\ UNCHANGED outs
  /\ UNCHANGED <<loopVars, heap>>
  /\ UNCHANGED others

\* a flush that forgets to record the sum
CommitSumForgotten(h, f) == h

\* st.lastSum = checksum (run.go 207)
CommitSum(h, f) == [h EXCEPT ![f.st][f.idx].lastSum = f.sum]

\* st.lastSum = checksum and the log of the write (run.go 207-208); without
\* on_change flush returns
FlushCommit(k) ==
  /\ Alive
  /\ flushes[k].pc = "commit"
  /\ heap' = CommitSum(heap, flushes[k])
  /\ IF FlushState(flushes[k]).target.onChange
     THEN /\ flushes' = [flushes EXCEPT ![k].pc = "hook"]
          /\ trace' = Quiet
     ELSE FlushReturns(k, "wrote")
  /\ UNCHANGED <<loopVars, events, newWatcher, outs>>
  /\ UNCHANGED others

\* runOnChange(t, rt.Output, ...) (run.go 210-212)
FlushHook(k) ==
  /\ Alive
  /\ flushes[k].pc = "hook"
  /\ LET f == flushes[k]
     IN /\ trace' = [hook |-> FlushState(f).target.name, idx |-> f.idx,
                      outcome |-> "wrote"]
        /\ flushes' = [flushes EXCEPT ![k] = Returned]
  /\ UNCHANGED <<loopVars, heap, events, newWatcher, outs>>
  /\ UNCHANGED others

(***************************************************************************)
(* The environment: modifications of source files (each one is reported    *)
(* by the watchers of its directory) and signals (signal.Notify does not   *)
(* block: a signal that finds sigc full is lost).                          *)
(***************************************************************************)
Running == pc \in LoopPcs /\ gen >= 1

EditSource(d, v) ==
  /\ pc \in LoopPcs
  /\ edits < MaxEdits
  /\ edits + sigs < MaxEnv
  /\ edits' = edits + 1
  /\ srcs' = [srcs EXCEPT ![d] = v]
  /\ events' = Notify(events, d, External)
  /\ newWatcher' = NotifyNew(newWatcher, d, External)
  /\ trace' = Quiet
  /\ UNCHANGED <<pc, cfg, gen, heap, watcher, dirToTargets, timers, orphans, flushes,
                 sigc, newCfg, newStates, bsCur, outs, sigs, exitSent, stopped>>
  /\ UNCHANGED others

Signal(s) ==
  /\ Running
  /\ sigs < MaxSignals
  /\ edits + sigs < MaxEnv
  /\ sigs' = sigs + 1
  /\ sigc' = IF Len(sigc) < SigChanCap THEN Append(sigc, s) ELSE sigc
  /\ exitSent' = (exitSent \/ s \in ExitSignals)
  /\ trace' = Quiet
  /\ UNCHANGED <<pc, cfg, gen, heap, watcher, dirToTargets, timers, orphans, flushes,
                 events, newCfg, newStates, bsCur, newWatcher, srcs, outs, edits,
                 stopped>>
  /\ UNCHANGED others

\* the steps of buildStates
BuildStatesStep ==
  \/ BuildStatesPlan
  \/ BuildStatesRead
  \/ BuildStatesWrite
  \/ BuildStatesHook
  \/ BuildStatesAppend

\* the steps of rebuild k
FlushStep(k) ==
  \/ FlushStart(k)
  \/ FlushPlan(k)
  \/ FlushBuild(k)
  \/ FlushCompare(k)
  \/ FlushCreateTemp(k)
  \/ FlushWrite(k)
  \/ FlushCommit(k)
  \/ FlushHook(k)

Next ==
  \/ BuildStatesPlan
  \/ BuildStatesRead
  \/ BuildStatesWrite
  \/ BuildStatesHook
  \/ BuildStatesAppend
  \/ BuildWatcher
  \/ SwapStates
  \/ SwapCfg
  \/ HandleEvent
  \/ HandleExit
  \/ HandleReload
  \/ ReloadConfig
  \/ \E i \in TimerSlots : TimerFire(i)
  \/ \E k \in DOMAIN flushes : FlushStart(k)
  \/ \E k \in DOMAIN flushes : FlushPlan(k)
  \/ \E k \in DOMAIN flushes : FlushBuild(k)
  \/ \E k \in DOMAIN flushes : FlushCompare(k)
  \/ \E k \in DOMAIN flushes : FlushCreateTemp(k)
  \/ \E k \in DOMAIN flushes : FlushWrite(k)
  \/ \E k \in DOMAIN flushes : FlushCommit(k)
  \/ \E k \in DOMAIN flushes : FlushHook(k)
  \/ \E d \in Dirs, v \in FileStates : EditSource(d, v)
  \/ \E s \in Signals : Signal(s)

Spec == Init /\ [][Next]_vars

\* the daemon run with the configuration whose output lies in a watched
\* directory
InitSelf == DaemonStart(3, 1, 1) /\ WriteIdle /\ BuildIdle /\ PlanIdle
SpecSelf == InitSelf /\ [][Next]_vars

\* the daemon run with two targets, the output of the first in a watched
\* directory
InitWatched == DaemonStart(4, 0, 2) /\ WriteIdle /\ BuildIdle /\ PlanIdle
SpecWatched == InitWatched /\ [][Next]_vars

(***************************************************************************)
(* Properties of the watch loop.                                           *)
(***************************************************************************)
\* the timers of the runtime that are armed for target index i
ArmedCount(i) ==
  (IF i \in DOMAIN timers /\ timers[i].st = "armed" THEN 1 ELSE 0)
  + Cardinality(OrphansOf(i))

\* the target indices the event at the head of w.Events is routed to
Routed == Range(dirToTargets[Head(events).dir]) \cap DOMAIN timers

\* C1: an event handled while the debounce timer of a target it is routed to
\* is pending cancels that timer and arms a new one, starting no rebuild: one
\* timer is armed for the target afterwards and it stands for every event of
\* the burst so far; when it expires exactly one rebuild of the target starts,
\* for the whole burst, and no timer of the target stays armed.
C1_BurstCoalesced ==
  [][ /\ HandleEvent =>
           \A i \in Routed :
              timers[i].st = "armed" =>
                /\ timers'[i].st = "armed"
                /\ timers'[i].n = timers[i].n + 1
                /\ ArmedCount(i)' = 1
                /\ flushes' = flushes
      /\ \A i \in TimerSlots :
           TimerFire(i) =>
             /\ ArmedCount(i) = 1
             /\ ArmedCount(i)' = 0
             /\ Len(flushes') = Len(flushes) + 1
             /\ flushes'[Len(flushes')].idx = i
             /\ flushes'[Len(flushes')].pc = "start"
             /\ flushes'[Len(flushes')].burst = timers[i].n
             /\ \A k \in DOMAIN flushes : flushes'[k] = flushes[k]
    ]_vars

\* a rebuild has been started for a burst of two events
C1_Witness ==
  \E k \in DOMAIN flushes : flushes[k].pc = "start" /\ flushes[k].burst >= 2

\* the target of rebuild k and the lastSum its target state holds
TargetOf(k) == FlushState(flushes[k]).target
LastSumOf(k) == FlushState(flushes[k]).lastSum
ErrorOutcomes == {"planerr", "builderr", "writeerr"}

\* C2: when the rebuild a debounce timer started has planned and built its
\* target and finds the sum equal to the target's lastSum, it returns at
\* once: no output is written, no lastSum changes and no hook runs.
C2_UnchangedIsNoOp ==
  [][ \A k \in DOMAIN flushes :
        (FlushCompare(k) /\ flushes[k].sum = LastSumOf(k)) =>
          /\ flushes'[k].pc = "done"
          /\ trace' = Ended(flushes[k].idx, "unchanged")
          /\ outs' = outs
          /\ heap' = heap
    ]_vars

\* a rebuild of target 1 has returned on finding the sum unchanged
C2_Witness == trace = Ended(1, "unchanged")

\* C3: when the rebuilt sum differs from lastSum the rebuild goes on to the
\* write, having touched nothing yet; the write puts the bytes at the output
\* and leaves lastSum alone; then lastSum is set to the rebuilt sum, before
\* any hook; with on_change set the hook then runs, once, and the rebuild
\* returns; without it the rebuild returns when lastSum is set.  A rebuild
\* sets lastSum only after its write and runs a hook only as its last step.
C3_WriteCommitHook ==
  [][ \A k \in DOMAIN flushes :
        /\ (FlushCompare(k) /\ flushes[k].sum # LastSumOf(k)) =>
              /\ flushes'[k].pc = "write"
              /\ trace' = Quiet
              /\ outs' = outs
              /\ heap' = heap
        /\ (FlushWrite(k) /\ trace'.outcome # "writeerr") =>
              /\ outs' = [outs EXCEPT ![TargetOf(k).output] = flushes[k].content]
              /\ IsMerged(TargetOf(k)) =>
                    sha256Hex(outs'[TargetOf(k).output]) = flushes[k].sum
              /\ heap' = heap
              /\ trace'.hook = ""
              /\ flushes'[k].pc = "commit"
        /\ FlushCommit(k) =>
              /\ heap'[flushes[k].st][flushes[k].idx].lastSum = flushes[k].sum
              /\ outs' = outs
              /\ trace'.hook = ""
              /\ flushes'[k].pc = IF TargetOf(k).onChange THEN "hook" ELSE "done"
        /\ FlushHook(k) =>
              /\ trace' = [hook |-> TargetOf(k).name, idx |-> flushes[k].idx,
                            outcome |-> "wrote"]
              /\ flushes'[k].pc = "done"
              /\ outs' = outs
              /\ heap' = heap
        /\ (flushes[k].pc # "commit" /\ flushes'[k].pc = "commit") =>
              flushes[k].pc \in {"write", "rename"}
        /\ (flushes[k].pc # "hook" /\ flushes'[k].pc = "hook") =>
              flushes[k].pc = "commit"
        /\ (flushes[k].pc # "done" /\ flushes'[k].pc = "done" /\ trace'.hook # "") =>
              flushes[k].pc = "hook"
    ]_vars

\* the rebuild of target "a" has written its output, set lastSum and run its
\* hook
C3_Witness ==
  /\ trace = [hook |-> "a", idx |-> 1, outcome |-> "wrote"]
  /\ outs["o1"] = NormalizedConcat(<<"d1">>, [d \in Dirs |-> "y"])
  /\ heap[gen][1].lastSum = sha256Hex(outs["o1"])

\* s is the beginning of t: t holds every element of s, in its place
IsPrefix(s, t) == Len(s) <= Len(t) /\ SubSeq(t, 1, Len(s)) = s

\* the report of what the write of rebuild k does in the directory of its
\* output
OwnEvent(k) ==
  Event(OutDir(TargetOf(k).output), <<flushes[k].st, flushes[k].idx, flushes[k].sum>>)

\* C4: a rebuild whose plan, build or write fails returns with the error and
\* nothing else happens: no output and no lastSum changes, no hook runs, the
\* loop stays where it is with its watcher, routing and timers and loses no
\* queued event, and the rebuilds of the other targets go on untouched.  The
\* queue of events grows only when the write fails after its temporary file
\* was created in a watched directory, by the one report of the removal of
\* that file.  A plan or build that cannot succeed and a write that cannot
\* read its files do fail.
C4_ErrorIsolated ==
  [][ \A k \in DOMAIN flushes :
        /\ (FlushPlan(k) /\ ~PlanOK(TargetOf(k), srcs)) => trace'.outcome = "planerr"
        /\ (FlushBuild(k) /\ ~ReadOK(TargetOf(k), srcs)) => trace'.outcome = "builderr"
        /\ (FlushCreateTemp(k) /\ ~WriteReadable(TargetOf(k), srcs)) =>
              trace'.outcome = "writeerr"
        /\ (FlushStep(k) /\ trace'.outcome \in ErrorOutcomes) =>
              /\ flushes'[k].pc = "done"
              /\ trace'.idx = flushes[k].idx
              /\ trace'.hook = ""
              /\ outs' = outs
              /\ heap' = heap
              /\ \A j \in DOMAIN flushes \ {k} : flushes'[j] = flushes[j]
              /\ UNCHANGED <<pc, cfg, gen, watcher, dirToTargets, timers, orphans,
                             sigc>>
              /\ IsPrefix(events, events')
              /\ events' # events =>
                    /\ flushes[k].pc = "rename"
                    /\ watcher.open
                    /\ OutDir(TargetOf(k).output) \in watcher.dirs
                    /\ events' = Append(events, OwnEvent(k))
              /\ (flushes[k].pc = "rename" /\ watcher.open
                  /\ OutDir(TargetOf(k).output) \in watcher.dirs) => events' # events
    ]_vars

\* the write of the rebuild of target 1, whose output lies in a watched
\* directory, has failed after its temporary file was created: the rebuild
\* has returned, the output and lastSum are those of the initial build, the
\* loop waits in its select with the reports of the temporary file, created
\* and removed, queued, and a rebuild of target 2 is about to write
C4_Witness ==
  /\ trace = Ended(1, "writeerr")
  /\ pc = "select"
  /\ cfg = 4 /\ gen = 1
  /\ outs["o3"] = Blend("last_wins", <<"d1">>, [d \in Dirs |-> "x"])
  /\ heap[1][1].lastSum = sha256Hex(outs["o3"])
  /\ Len(events) >= 2
  /\ events[Len(events)].by # External
  /\ events[Len(events)].by[3] # heap[1][1].lastSum
  /\ events[Len(events) - 1] = events[Len(events)]
  /\ \E k \in DOMAIN flushes : flushes[k].idx = 2 /\ flushes[k].pc = "write"

\* the steps Run's goroutine takes to handle a reload signal
ReloadStep ==
  /\ gen >= 1
  /\ (HandleReload \/ ReloadConfig \/ BuildStatesStep \/ BuildWatcher \/ SwapStates
      \/ SwapCfg)

ReloadFailures == {"reload error", "reload build error", "reload watcher error"}

\* what the loop serves events with
Serving == <<cfg, gen, heap, watcher, dirToTargets>>

\* C6: every step of a reload before the final assignments leaves the
\* configuration, the target states with their lastSum, the watcher and the
\* routing map as they are; a reload fails when the configuration does not
\* load, when a target of the new configuration cannot be planned, built or
\* written, or when the watcher cannot be set up, and a reload that fails
\* puts Run back at its select, the watcher open and the routing that of the
\* states kept, with every queued event still to be served.  The queue grows
\* on a failure only by the report of the removal of the temporary file of a
\* write that failed in a directory the watcher kept watches.
C6_FailedReloadKeepsState ==
  [][ ReloadStep =>
        /\ pc' \in LoopPcs
        /\ (pc \notin {"swap_states", "swap_cfg"}) => UNCHANGED Serving
        /\ (BuildStatesPlan /\ ~(PlanOK(BsTarget, srcs) /\ ReadOK(BsTarget, srcs))) =>
              trace'.outcome = "reload build error"
        /\ (BuildStatesRead /\ ~WriteReadable(BsTarget, srcs)) =>
              trace'.outcome = "reload build error"
        /\ (trace'.outcome \in ReloadFailures) =>
              /\ pc' = "select"
              /\ UNCHANGED Serving
              /\ watcher'.open
              /\ watcher'.dirs = GlobalDirs(States')
              /\ dirToTargets' = RoutingOf(States')
              /\ Len(timers') = Len(States')
              /\ IsPrefix(events, events')
              /\ events' # events =>
                    /\ pc = "bs_rename"
                    /\ watcher.open
                    /\ OutDir(BsTarget.output) \in watcher.dirs
                    /\ events' = Append(events, Event(OutDir(BsTarget.output),
                                                      <<gen + 1, BsIndex, bsCur.sum>>))
              /\ (pc = "bs_rename" /\ watcher.open
                  /\ OutDir(BsTarget.output) \in watcher.dirs) => events' # events
    ]_vars

\* a reload has failed at the write of its first target, after the temporary
\* file was created in a directory the watcher watches: the loop is back at
\* its select with the configuration, the states and the lastSum of the
\* initial build, and the reports of the temporary file, created and
\* removed, wait to be served
C6_Witness ==
  /\ trace = Ended(0, "reload build error")
  /\ pc = "select"
  /\ cfg = 4 /\ gen = 1
  /\ watcher = [dirs |-> {"d1", "d2"}, open |-> TRUE]
  /\ heap[1][1].lastSum = sha256Hex(Blend("last_wins", <<"d1">>, [d \in Dirs |-> "x"]))
  /\ Len(events) >= 2
  /\ events[Len(events)].by # External
  /\ events[Len(events)].by[1] = 2
  /\ events[Len(events) - 1] = events[Len(events)]

\* C7: once Run has returned on an exit signal the watcher is closed, no
\* debounce timer is armed and no rebuild starts.
C7_ExitCancelsTimers ==
  [][ pc = "returned_nil" =>
        /\ ~watcher.open
        /\ \A i \in TimerSlots : ArmedCount(i) = 0
        /\ Len(flushes') = Len(flushes)
    ]_vars

\* C8: an exit signal delivered to the running process is not lost: until
\* Run has returned nil an exit signal waits in the signal channel.
C8_ExitSignalKept ==
  (exitSent /\ Alive /\ pc # "returned_nil") =>
     \E k \in DOMAIN sigc : sigc[k] \in ExitSignals

\* C9: the rebuild a debounce timer starts begins after every rebuild of the
\* target that was running when the timer was armed has returned.
C9_NextRebuildAfterReturn ==
  \A k \in DOMAIN flushes :
     flushes[k].pc = "start" =>
       \A j \in flushes[k].during : flushes[j].pc = "done"

\* the callbacks that are inside flush
InFlush == {k \in DOMAIN flushes : flushes[k].pc \in FlushPcs}

\* C21: no two rebuilds of one target state are in progress at once.
C21_NonReentrant ==
  \A j, k \in InFlush :
     (flushes[j].st = flushes[k].st /\ flushes[j].idx = flushes[k].idx) => j = k

\* C22: a timer callback does none of the work of a rebuild: no callback is
\* ever inside flush, where the target state and the configuration are read
\* and the plan, the build, the write and the hook are run.
C22_CallbacksOnlyEnqueue == InFlush = {}

\* C23: when a reload that succeeds hands the loop back to its select, the
\* configuration, the target states, the watcher, the routing map and the
\* timers are those of the new configuration, the timers a fresh slice of
\* the new length; and a rebuild plans the target of the state it has read
\* against the configuration that state was built from.
C23_SwapTogether ==
  [][ /\ SwapCfg =>
            /\ cfg' = newCfg
            /\ States' = newStates
            /\ watcher' = [dirs |-> GlobalDirs(newStates), open |-> TRUE]
            /\ dirToTargets' = RoutingOf(newStates)
            /\ timers' = FreshTimers(Len(newStates))
      /\ \A k \in DOMAIN flushes :
            FlushPlan(k) =>
              /\ flushes[k].idx <= Len(Configs[cfg])
              /\ Configs[cfg][flushes[k].idx] = TargetOf(k)
    ]_vars

\* C24: every write of the loop, by the initial build, a reload or a
\* rebuild, on the merge path or the concat path, puts at the output the
\* bytes whose SHA-256 is the sum the operation stores as lastSum.
C24_SumOfWrittenBytes ==
  [][ /\ (BuildStatesWrite /\ pc' \in {"bs_hook", "bs_dirs"}) =>
            bsCur.sum = sha256Hex(outs'[BsTarget.output])
      /\ \A k \in DOMAIN flushes :
            (FlushWrite(k) /\ trace'.outcome # "writeerr") =>
              flushes[k].sum = sha256Hex(outs'[TargetOf(k).output])
    ]_vars

\* C25: when a callback reads states[idx] the index is in range.
C25_IndexInRange ==
  [][ \A k \in DOMAIN flushes : FlushStart(k) => flushes[k].idx <= Len(States) ]_vars

\* the states slice of the last reload that has completed (or of the
\* initial build): between the assignment of `states` and the end of the
\* reload it is the one before the current slice
Completed == IF pc = "swap_cfg" THEN gen - 1 ELSE gen

\* C26: a rebuild that writes an output or runs a hook does so for a target
\* state that is not older than the last reload that has completed.
C26_NoWriteForOldState ==
  [][ \A k \in DOMAIN flushes :
        ((FlushWrite(k) /\ trace'.outcome # "writeerr") \/ FlushHook(k)) =>
          flushes[k].st >= Completed
    ]_vars

\* the outputs buildStates has written so far for the configuration being
\* loaded: those of the states appended and that of the target at hand once
\* its write is done
WrittenByReload ==
  {newStates[i].target.output : i \in DOMAIN newStates}
  \cup (IF pc \in {"bs_hook", "bs_dirs"} THEN {BsTarget.output} ELSE {})

\* C27: when a reload fails, at a target of the new configuration or at the
\* registration of the watcher, it has written no output and run no hook
\* for the new configuration.
C27_FailedReloadWritesNothing ==
  [][ (ReloadStep /\ trace'.outcome \in ReloadFailures) => WrittenByReload = {} ]_vars

\* C28: a reload that fails leaves the rebuilds pending that were pending
\* when its signal was handled: every target whose debounce timer was armed
\* then has a timer armed when the reload has failed.
C28_FailedReloadKeepsTimers ==
  [][ (ReloadStep /\ trace'.outcome \in ReloadFailures) =>
        \A i \in stopped : ArmedCount(i)' >= 1
    ]_vars

\* the rebuild k was started by the events of one write of the daemon, the
\* write of the sum s for the target state the rebuild is for
StartedByWriteOf(k, s) == flushes[k].by = <<flushes[k].st, flushes[k].idx, s>>

\* C29: with the output in a watched directory, the rebuild that the
\* events of the daemon's own write start, having built the sum that was
\* written, finds it equal to lastSum and returns: it writes nothing, so it
\* causes no further event.
C29_OwnWriteIsNoOp ==
  [][ \A k \in DOMAIN flushes :
        (FlushCompare(k) /\ StartedByWriteOf(k, flushes[k].sum)) =>
          /\ trace' = Ended(flushes[k].idx, "unchanged")
          /\ flushes'[k].pc = "done"
          /\ outs' = outs
          /\ events' = events
    ]_vars
(***************************************************************************)
(* Part II.  WriteAtomic (internal/exec) and a concurrent reader.          *)
(*                                                                         *)
(* The output directory maps names to inodes; a file content is a          *)
(* sequence of bytes.  A process that has opened a file reads the inode it *)
(* opened, whatever the name refers to afterwards.                         *)
(***************************************************************************)
Bytes == {"a", "b"}

\* the sequences of at most n elements of S
RECURSIVE SeqsOf(_, _)
SeqsOf(S, n) ==
  IF n = 0 THEN {<<>>}
  ELSE SeqsOf(S, n - 1) \cup
       {Append(c, b) : c \in {x \in SeqsOf(S, n - 1) : Len(x) = n - 1}, b \in S}

FileContents == SeqsOf(Bytes, MaxLen)

Prefix(c, n) == SubSeq(c, 1, n)
Suffix(c, n) == SubSeq(c, n + 1, Len(c))

\* the name os.CreateTemp(dir, ".confb-*") makes: a new name of the directory
TempName == "tmp"
OutputPath == "out"

\* what a reader of the path finds
PathContent(d) == IF d.dir[OutputPath] = 0 THEN Absent ELSE d.ino[d.dir[OutputPath]]

\* a removal that leaves the name in the directory
RemoveNothing(d, name) == d

\* os.Remove(tmpName)
Remove(d, name) == [d EXCEPT !.dir[name] = 0]

\* a rename that copies the bytes into the file the name refers to
RenameByCopy(d, from, to) ==
  IF d.dir[to] = 0
  THEN [d EXCEPT !.dir[to] = d.dir[from], !.dir[from] = 0]
  ELSE [d EXCEPT !.ino[d.dir[to]] = d.ino[d.dir[from]], !.dir[from] = 0]

\* os.Rename(tmpName, outputPath): the name is made to refer to the inode of
\* the temporary file, in one step
Rename(d, from, to) == [d EXCEPT !.dir[to] = d.dir[from], !.dir[from] = 0]

InitWrite ==
  /\ DaemonInit
  /\ BuildIdle
  /\ PlanIdle
  /\ wpc = "mkdir"
  /\ wprior \in FileContents \cup {Absent}
  /\ disk = IF wprior = Absent
            THEN [dir |-> [n \in {OutputPath, TempName} |-> 0], ino |-> <<>>]
            ELSE [dir |-> [n \in {OutputPath, TempName} |->
                            IF n = OutputPath THEN 1 ELSE 0],
                  ino |-> <<wprior>>]
  /\ wnew \in FileContents
  /\ wfd = 0
  /\ wbuf = <<>>
  /\ rfd = 0
  /\ rseen = <<>>
  /\ rres = NoRes

readerVars == <<rfd, rseen, rres>>

\* a step of WriteAtomic that fails after the temporary file was created:
\* tmp.Close() and os.Remove(tmpName), then the error is returned
FailAndRemove ==
  /\ wpc' = "err"
  /\ disk' = Remove(disk, TempName)
  /\ wfd' = 0
  /\ wbuf' = <<>>

\* os.MkdirAll(filepath.Dir(outputPath), 0o755)
WMkdir ==
  /\ wpc = "mkdir"
  /\ \E ok \in BOOLEAN : wpc' = IF ok THEN "create" ELSE "err"
  /\ UNCHANGED <<disk, wfd, wbuf, wnew, wprior, readerVars, daemonVars, buildVars, planVars>>

\* os.CreateTemp: a new empty file under a new name
WCreate ==
  /\ wpc = "create"
  /\ \E ok \in BOOLEAN :
       IF ok
       THEN /\ disk' = [dir |-> [disk.dir EXCEPT ![TempName] = Len(disk.ino) + 1],
                        ino |-> Append(disk.ino, <<>>)]
            /\ wfd' = Len(disk.ino) + 1
            /\ wpc' = "write"
       ELSE /\ wpc' = "err"
            /\ UNCHANGED <<disk, wfd>>
  /\ UNCHANGED <<wbuf, wnew, wprior, readerVars, daemonVars, buildVars, planVars>>

\* w.WriteString(content): the bufio.Writer passes a prefix of the content on
\* to the file and keeps the rest
WWrite ==
  /\ wpc = "write"
  /\ \E ok \in BOOLEAN, n \in 0..Len(wnew) :
       IF ok
       THEN /\ disk' = [disk EXCEPT !.ino[wfd] = Prefix(wnew, n)]
            /\ wbuf' = Suffix(wnew, n)
            /\ wpc' = "flush"
            /\ UNCHANGED wfd
       ELSE FailAndRemove
  /\ UNCHANGED <<wnew, wprior, readerVars, daemonVars, buildVars, planVars>>

\* w.Flush()
WFlush ==
  /\ wpc = "flush"
  /\ \E ok \in BOOLEAN :
       IF ok
       THEN /\ disk' = [disk EXCEPT !.ino[wfd] = disk.ino[wfd] \o wbuf]
            /\ wbuf' = <<>>
            /\ wpc' = "sync"
            /\ UNCHANGED wfd
       ELSE FailAndRemove
  /\ UNCHANGED <<wnew, wprior, readerVars, daemonVars, buildVars, planVars>>

\* tmp.Sync()
WSync ==
  /\ wpc = "sync"
  /\ \E ok \in BOOLEAN :
       IF ok
       THEN /\ wpc' = "close"
            /\ UNCHANGED <<disk, wfd, wbuf>>
       ELSE FailAndRemove
  /\ UNCHANGED <<wnew, wprior, readerVars, daemonVars, buildVars, planVars>>

\* tmp.Close()
WClose ==
  /\ wpc = "close"
  /\ \E ok \in BOOLEAN :
       IF ok
       THEN /\ wpc' = "rename"
            /\ wfd' = 0
            /\ UNCHANGED <<disk, wbuf>>
       ELSE FailAndRemove
  /\ UNCHANGED <<wnew, wprior, readerVars, daemonVars, buildVars, planVars>>

\* os.Rename(tmpName, outputPath)
WRename ==
  /\ wpc = "rename"
  /\ \E ok \in BOOLEAN :
       IF ok
       THEN /\ disk' = Rename(disk, TempName, OutputPath)
            /\ wpc' = "dirsync"
            /\ UNCHANGED <<wfd, wbuf>>
       ELSE FailAndRemove
  /\ UNCHANGED <<wnew, wprior, readerVars, daemonVars, buildVars, planVars>>

\* the best-effort fsync of the directory, and return nil
WDirSync ==
  /\ wpc = "dirsync"
  /\ wpc' = "ok"
  /\ UNCHANGED <<disk, wfd, wbuf, wnew, wprior, readerVars, daemonVars, buildVars, planVars>>

\* the reader opens the path
ReaderOpen ==
  /\ wpc \notin {"idle", "ok", "err"}
  /\ rfd = 0
  /\ IF disk.dir[OutputPath] = 0
     THEN /\ rres' = Absent
          /\ UNCHANGED rfd
     ELSE /\ rfd' = disk.dir[OutputPath]
          /\ rres' = NoRes
  /\ rseen' = <<>>
  /\ UNCHANGED <<wpc, disk, wfd, wbuf, wnew, wprior, daemonVars, buildVars, planVars>>

\* the reader reads the next byte of the file it has open, or finds its end
ReaderRead ==
  /\ rfd # 0
  /\ IF Len(rseen) < Len(disk.ino[rfd])
     THEN /\ rseen' = Append(rseen, disk.ino[rfd][Len(rseen) + 1])
          /\ UNCHANGED <<rfd, rres>>
     ELSE /\ rres' = rseen
          /\ rfd' = 0
          /\ rseen' = <<>>
  /\ UNCHANGED <<wpc, disk, wfd, wbuf, wnew, wprior, daemonVars, buildVars, planVars>>

NextWrite ==
  \/ WMkdir
  \/ WCreate
  \/ WWrite
  \/ WFlush
  \/ WSync
  \/ WClose
  \/ WRename
  \/ WDirSync
  \/ ReaderOpen
  \/ ReaderRead

SpecWrite == InitWrite /\ [][NextWrite]_vars

\* C5: whatever step WriteAtomic is at, a complete read of the path returns
\* the prior content or the new content and the path holds one of the two;
\* the file the path refers to is never modified, and the path changes the
\* file it refers to only in the rename, to the file holding the whole new
\* content.
C5_ReadersSeeOldOrNew ==
  [][ /\ rres' \in {NoRes, wprior, wnew}
      /\ PathContent(disk') \in {wprior, wnew}
      /\ disk.dir[OutputPath] # 0 =>
           disk'.ino[disk.dir[OutputPath]] = disk.ino[disk.dir[OutputPath]]
      /\ disk'.dir[OutputPath] # disk.dir[OutputPath] =>
           /\ wpc = "rename"
           /\ PathContent(disk') = wnew
    ]_vars

\* the reader is in the middle of the old file, of which it has read one
\* byte, while the rename has put the new content, which starts with another
\* byte, at the path
C5_Witness ==
  /\ wpc = "dirsync"
  /\ rfd # 0 /\ rfd # disk.dir[OutputPath]
  /\ Len(rseen) = 1 /\ Len(wprior) = 2 /\ Len(wnew) = 2
  /\ wnew[1] # wprior[1]
\* C14: when WriteAtomic has returned, with an error or without, the
\* directory holds no temporary file; when it returned an error, from
\* whichever step, the path holds what it held before the call.
C14_FailureCleansUp ==
  /\ wpc \in {"ok", "err"} => disk.dir[TempName] = 0
  /\ wpc = "err" => PathContent(disk) = wprior

\* WriteAtomic returned an error after its temporary file had received
\* bytes, the path holding a prior content
C14_Witness ==
  /\ wpc = "err"
  /\ wprior # Absent
  /\ Len(disk.ino) = 2
  /\ disk.ino[2] # <<>>

(***************************************************************************)
(* Part III.  The builder: buildContentAndChecksum and the blenders.       *)
(*                                                                         *)
(* A Go map is the set of its <<key, value>> pairs, one per key.           *)
(* `for k := range m` visits the keys in an order the language leaves      *)
(* open: an operator that ranges over a map yields the set of the results  *)
(* of all orders.                                                          *)
(***************************************************************************)
EmptyMap == {}
Keys(m) == {p[1] : p \in m}
Get(m, k) == (CHOOSE p \in m : p[1] = k)[2]
Put(m, k, v) == {p \in m : p[1] # k} \cup {<<k, v>>}

\* the orders a range over a map with key set S can take
RECURSIVE Perms(_)
Perms(S) ==
  IF S = {} THEN {<<>>}
  ELSE UNION {{<<x>> \o p : p \in Perms(S \ {x})} : x \in S}

\* the strings of the model in the byte order Go compares strings by
Lex == <<"", "/a", "/b", "/d", "h", "k1", "k2", "n1", "n2", "v1", "v2">>
LexRank(x) == CHOOSE i \in DOMAIN Lex : Lex[i] = x
Less(x, y) == LexRank(x) < LexRank(y)

\* a sort that leaves the slice as it is
Unsorted(a) == a

\* sort.Strings(a): the elements of a in increasing order
SortStrings(a) ==
  LET n == Len(a)
      pos(i) == Cardinality({j \in 1..n : Less(a[j], a[i]) \/ (a[j] = a[i] /\ j < i)}) + 1
  IN [r \in 1..n |-> a[CHOOSE i \in 1..n : pos(i) = r]]

RECURSIVE Repeat(_, _)
Repeat(str, n) == IF n = 0 THEN "" ELSE str \o Repeat(str, n - 1)

\* what a blender returns, (string, error): err is "" for a nil error
Ok(s) == [err |-> "", s |-> s]
Fail(msg) == [err |-> msg, s |-> ""]

\* strings.ToLower, on the format names a target is given
ToLower(s) ==
  IF s = "YAML" THEN "yaml" ELSE IF s = "JSON" THEN "json"
  ELSE IF s = "TOML" THEN "toml" ELSE IF s = "KDL" THEN "kdl"
  ELSE IF s = "INI" THEN "ini" ELSE s

(***************************************************************************)
(* KDL (BlendKDL).  A fragment is the tree parseKDL returns for a file.    *)
(* A file that cannot be read, or that parseKDL rejects, is a node without *)
(* a name (the root parseKDL returns is named __root__) whose head is the  *)
(* error.                                                                  *)
(***************************************************************************)
newNode(name, head) ==
  [Name |-> name, Head |-> head, Props |-> EmptyMap, PropsOrder |-> <<>>,
   Children |-> EmptyMap, ChildrenOrder |-> <<>>]

appendChild(n, name, c) ==
  IF name \in Keys(n.Children)
  THEN [n EXCEPT !.Children = Put(@, name, Append(Get(@, name), c))]
  ELSE [n EXCEPT !.Children = Put(@, name, <<c>>),
                 !.ChildrenOrder = Append(@, name)]

\* the first instance of lst with the head, 0 when there is none
FirstWithHead(lst, head) ==
  IF \E i \in DOMAIN lst : lst[i].Head = head
  THEN CHOOSE i \in DOMAIN lst :
         lst[i].Head = head /\ \A j \in 1..(i - 1) : lst[j].Head # head
  ELSE 0

HasSingle(n, name, head) ==
  name \in Keys(n.Children) /\ FirstWithHead(Get(n.Children, name), head) # 0

\* a new child whether or not one with the head exists
ensureNew(n, name, head) == appendChild(n, name, newNode(name, head))

\* ensureSingle: n with a child (name, head), and where that child is
ensureSingle(n, name, head) ==
  IF HasSingle(n, name, head) THEN n ELSE appendChild(n, name, newNode(name, head))

SinglePos(n, name, head) ==
  FirstWithHead(Get(ensureSingle(n, name, head).Children, name), head)

setProp(n, key, val, mode) ==
  IF key = "" THEN n
  ELSE IF mode = "first_wins"
  THEN IF key \in Keys(n.Props) THEN n
       ELSE [n EXCEPT !.Props = Put(@, key, <<val>>), !.PropsOrder = Append(@, key)]
  ELSE IF mode = "append"
  THEN IF key \in Keys(n.Props)
       THEN [n EXCEPT !.Props = Put(@, key, Append(Get(@, key), val))]
       ELSE [n EXCEPT !.Props = Put(@, key, <<val>>), !.PropsOrder = Append(@, key)]
  ELSE IF key \in Keys(n.Props)
       THEN [n EXCEPT !.Props = Put(@, key, <<val>>)]
       ELSE [n EXCEPT !.Props = Put(@, key, <<val>>), !.PropsOrder = Append(@, key)]

\* for _, v := range vs { dst.setProp(k, v, mode) }
RECURSIVE SetProps(_, _, _, _)
SetProps(n, key, vs, mode) ==
  IF vs = <<>> THEN n
  ELSE SetProps(setProp(n, key, Head(vs), mode), key, Tail(vs), mode)

\* the props loop of mergeFrom with the keys visited in the order keys
RECURSIVE MergeProps(_, _, _, _)
MergeProps(dst, src, keys, mode) ==
  IF keys = <<>> THEN dst
  ELSE MergeProps(SetProps(dst, Head(keys), Get(src.Props, Head(keys)), mode),
                  src, Tail(keys), mode)

RECURSIVE mergeFrom(_, _, _)
RECURSIVE MergeInstances(_, _, _, _)
RECURSIVE MergeChildren(_, _, _, _)

\* child := dst.ensureSingle(name, inst.Head); child.mergeFrom(inst, rules)
MergeInto(d, name, inst, mode) ==
  LET d1 == ensureSingle(d, name, inst.Head)
      i == SinglePos(d, name, inst.Head)
  IN {[d1 EXCEPT !.Children = Put(@, name, [Get(@, name) EXCEPT ![i] = c])] :
        c \in mergeFrom(Get(d1.Children, name)[i], inst, mode)}

\* for _, inst := range instances, on every dst of D
MergeInstances(D, name, insts, mode) ==
  IF insts = <<>> THEN D
  ELSE MergeInstances(UNION {MergeInto(d, name, Head(insts), mode) : d \in D},
                      name, Tail(insts), mode)

\* the children loop of mergeFrom with the names visited in the order names
MergeChildren(D, src, names, mode) ==
  IF names = <<>> THEN D
  ELSE MergeChildren(MergeInstances(D, Head(names), Get(src.Children, Head(names)), mode),
                     src, Tail(names), mode)

\* mergeFrom: the nodes dst can become
mergeFrom(dst, src, mode) ==
  UNION {MergeChildren({MergeProps(dst, src, ks, mode) : ks \in Perms(Keys(src.Props))},
                       src, ns, mode) : ns \in Perms(Keys(src.Children))}

RECURSIVE cloneNode(_)
RECURSIVE CloneInstances(_, _, _)
RECURSIVE CloneChildren(_, _, _)

\* for _, c := range list { cp.appendChild(k, c.cloneNode()) }, on every cp of D
CloneInstances(D, name, insts) ==
  IF insts = <<>> THEN D
  ELSE CloneInstances({appendChild(cp, name, c) : cp \in D, c \in cloneNode(Head(insts))},
                      name, Tail(insts))

CloneChildren(D, n, names) ==
  IF names = <<>> THEN D
  ELSE CloneChildren(CloneInstances(D, Head(names), Get(n.Children, Head(names))),
                     n, Tail(names))

\* cloneNode: the copies of n the function can return
cloneNode(n) ==
  UNION {CloneChildren({[newNode(n.Name, n.Head) EXCEPT !.Props = n.Props,
                                                        !.PropsOrder = n.PropsOrder]},
                       n, ns) : ns \in Perms(Keys(n.Children))}

\* one property line per value
RECURSIVE PropLines(_, _, _)
PropLines(indent, k, vs) ==
  IF vs = <<>> THEN ""
  ELSE indent \o "  " \o (IF Head(vs) = "" THEN k ELSE k \o " " \o Head(vs)) \o "\n"
       \o PropLines(indent, k, Tail(vs))

RECURSIVE renderKDL(_, _)
RECURSIVE RenderProps(_, _, _)
RECURSIVE RenderList(_, _)
RECURSIVE RenderNames(_, _, _)

RenderProps(n, indent, keys) ==
  IF keys = <<>> THEN ""
  ELSE PropLines(indent, Head(keys), Get(n.Props, Head(keys)))
       \o RenderProps(n, indent, Tail(keys))

RenderList(list, depth) ==
  IF list = <<>> THEN ""
  ELSE renderKDL(Head(list), depth) \o RenderList(Tail(list), depth)

RenderNames(n, names, depth) ==
  IF names = <<>> THEN ""
  ELSE RenderList(Get(n.Children, Head(names)), depth) \o RenderNames(n, Tail(names), depth)

\* renderKDL: names and keys sorted; the root joins its sections, which end
\* with a newline each, and is a lone newline when it has none
renderKDL(n, depth) ==
  IF n.Name = "__root__"
  THEN LET out == RenderNames(n, SortStrings(n.ChildrenOrder), depth)
       IN IF out = "" THEN "\n" ELSE out
  ELSE LET indent == Repeat("  ", depth)
       IN indent \o n.Name \o (IF n.Head # "" THEN " " \o n.Head ELSE "") \o " {\n"
          \o RenderProps(n, indent, SortStrings(n.PropsOrder))
          \o RenderNames(n, SortStrings(n.ChildrenOrder), depth + 1)
          \o indent \o "}\n"

\* every name eligible, whatever section_keys says
AlwaysEligible(name, rules) == TRUE

\* rules of a kdl target: [keys, section_keys]
isEligible(name, rules) == rules.section_keys = {} \/ name \in rules.section_keys

\* one top-level instance of a fragment: merge or append (json_test.go 179-186)
BlendInstance(R, name, inst, rules) ==
  IF isEligible(name, rules)
  THEN UNION {MergeInto(root, name, inst, rules.keys) : root \in R}
  ELSE {appendChild(root, name, c) : root \in R, c \in cloneNode(inst)}

RECURSIVE BlendInstances(_, _, _, _)
BlendInstances(R, name, insts, rules) ==
  IF insts = <<>> THEN R
  ELSE BlendInstances(BlendInstance(R, name, Head(insts), rules), name, Tail(insts), rules)

\* for _, childName := range top.ChildrenOrder
RECURSIVE BlendTop(_, _, _, _)
BlendTop(R, top, names, rules) ==
  IF names = <<>> THEN R
  ELSE BlendTop(BlendInstances(R, Head(names), Get(top.Children, Head(names)), rules),
                top, Tail(names), rules)

RECURSIVE BlendFragments(_, _, _)
BlendFragments(R, tops, rules) ==
  IF tops = <<>> THEN R
  ELSE BlendFragments(BlendTop(R, Head(tops), Head(tops).ChildrenOrder, rules),
                      Tail(tops), rules)

\* os.ReadFile fails on the file
UnreadableKdl == newNode("", "read")
\* parseKDL fails on the file
UnmatchedKdl == newNode("", "unmatched closing brace")
UnclosedKdl == newNode("", "unclosed block(s)")

\* the error the loop over the files returns with, "" when it ends
RECURSIVE KdlLoopError(_)
KdlLoopError(files) ==
  IF files = <<>> THEN ""
  ELSE IF Head(files).Name = "" THEN Head(files).Head
  ELSE KdlLoopError(Tail(files))

\* the error BlendKDL returns, "" for nil
KdlError(rules, files) ==
  IF ~rules.ptr THEN "merge rules required" ELSE KdlLoopError(files)

\* BlendKDL: what it can return for the files
BlendKDL(rules, files) ==
  IF KdlError(rules, files) # "" THEN {Fail(KdlError(rules, files))}
  ELSE {Ok(renderKDL(root, 0)) :
          root \in BlendFragments({newNode("__root__", "")}, files, rules)}
(***************************************************************************)
(* INI (BlendINI).  A file is the sequence of its lines, each a section    *)
(* header, a key=value line, or a line the scanner loop skips (blank,      *)
(* comment, malformed); a file that cannot be opened is UnreadableIni.     *)
(***************************************************************************)
Hdr(name) == [kind |-> "header", key |-> name, val |-> ""]
KV(k, v) == [kind |-> "kv", key |-> k, val |-> v]
Skip == [kind |-> "skip", key |-> "", val |-> ""]
\* os.Open fails on the file
UnreadableIni == <<[kind |-> "unreadable", key |-> "", val |-> ""]>>

Swap(a, i, j) == [a EXCEPT ![i] = a[j], ![j] = a[i]]

\* sortStrings: the exchange sort of ini.go
RECURSIVE SortFrom(_, _, _)
SortFrom(a, i, j) ==
  IF i > Len(a) - 1 THEN a
  ELSE IF j > Len(a) THEN SortFrom(a, i + 1, i + 2)
  ELSE SortFrom(IF Less(a[j], a[i]) THEN Swap(a, i, j) ELSE a, i, j + 1)

sortStrings(a) == SortFrom(a, 1, 2)

\* ensure(name) on the accumulator [acc, seenSec, sect]
ensure(st, name) ==
  IF name \in Keys(st.acc) THEN st
  ELSE [st EXCEPT !.acc = Put(@, name, EmptyMap), !.seenSec = Append(@, name)]

\* one line of a file: st.sect is the name of the section at hand
IniLine(st, line, mode) ==
  IF line.kind = "header"
  THEN [ensure(st, line.key) EXCEPT !.sect = line.key]
  ELSE IF line.kind = "kv" /\ line.key # ""
  THEN LET sect == Get(st.acc, st.sect)
       IN [st EXCEPT !.acc =
             Put(@, st.sect,
                 Put(sect, line.key,
                     IF mode = "append" /\ line.key \in Keys(sect)
                     THEN Append(Get(sect, line.key), line.val)
                     ELSE <<line.val>>))]
  ELSE st

RECURSIVE IniLines(_, _, _)
IniLines(st, lines, mode) ==
  IF lines = <<>> THEN st
  ELSE IniLines(IniLine(st, Head(lines), mode), Tail(lines), mode)

\* the files in order; each starts in the global section
RECURSIVE IniFiles(_, _, _)
IniFiles(st, files, mode) ==
  IF files = <<>> THEN st
  ELSE IniFiles(IniLines([ensure(st, "") EXCEPT !.sect = ""], Head(files), mode),
                Tail(files), mode)

\* The builder b of the render loop is the sequence of the lines written
\* to it: every write of the loop completes a line, which is a header
\* [name], a line key=value, or the empty line of a lone newline.
EmptyLine == [kind |-> "empty", key |-> "", val |-> ""]

RECURSIVE KeyLines(_, _)
KeyLines(k, vs) ==
  IF vs = <<>> THEN <<>>
  ELSE <<KV(k, Head(vs))>> \o KeyLines(k, Tail(vs))

RECURSIVE SectionLines(_, _)
SectionLines(sect, keys) ==
  IF keys = <<>> THEN <<>>
  ELSE KeyLines(Head(keys), Get(sect, Head(keys))) \o SectionLines(sect, Tail(keys))

\* the bytes of a line, without the newline that ends it
LineText(l) ==
  IF l.kind = "header" THEN "[" \o l.key \o "]"
  ELSE IF l.kind = "kv" THEN l.key \o "=" \o l.val
  ELSE ""

\* the bytes of the lines
RECURSIVE JoinLines(_)
JoinLines(ls) ==
  IF ls = <<>> THEN "" ELSE LineText(Head(ls)) \o "\n" \o JoinLines(Tail(ls))

\* one section written to the builder b, its keys ranged over in the order
\* keys; the builder lacks a final newline only when it is empty, and then
\* gets a lone newline
RenderSection(b, name, sect, keys) ==
  LET b1 == b \o (IF name # "" THEN <<Hdr(name)>> ELSE <<>>)
                \o SectionLines(sect, sortStrings(keys))
  IN IF b1 = <<>> THEN <<EmptyLine>> ELSE b1

RECURSIVE RenderSections(_, _, _)
RenderSections(B, names, acc) ==
  IF names = <<>> THEN B
  ELSE RenderSections({RenderSection(b, Head(names), Get(acc, Head(names)), ks) :
                          b \in B, ks \in Perms(Keys(Get(acc, Head(names))))},
                      Tail(names), acc)

\* append whatever the rules say
AlwaysAppend(rules) == "append"

IniMode(rules) == IF rules.repeated_keys = "" THEN "last_wins" ELSE rules.repeated_keys

\* the accumulator after the scan of all files
IniScan(rules, files) ==
  IniFiles([acc |-> EmptyMap, seenSec |-> <<>>, sect |-> ""], files, IniMode(rules))

\* the lines the render loop can write
RenderINI(rules, files) ==
  LET st == IniScan(rules, files)
  IN {IF b = <<>> THEN <<EmptyLine>> ELSE b :
        b \in RenderSections({<<>>}, st.seenSec, st.acc)}

\* BlendINI: what it can return; it reads a field of rules first, and the
\* sections scanned before a file that cannot be opened are dropped
IniError(rules, files) ==
  IF ~rules.ptr THEN "panic: nil pointer dereference"
  ELSE IF \E i \in DOMAIN files : files[i] = UnreadableIni THEN "read"
  ELSE ""

BlendINI(rules, files) ==
  IF IniError(rules, files) # "" THEN {Fail(IniError(rules, files))}
  ELSE {Ok(JoinLines(b)) : b \in RenderINI(rules, files)}

(***************************************************************************)
(* The concat path (readAndNormalize).  A file is a sequence of bytes.     *)
(***************************************************************************)
LF == "\n"
CR == "\r"
\* a byte that is not valid UTF-8
BadByte == "?"

RECURSIVE Flat(_)
Flat(cs) == IF cs = <<>> THEN "" ELSE Head(cs) \o Flat(Tail(cs))

\* r.ReadString('\n'): the bytes up to and with the first LF, or all of them
ReadString(cs) ==
  IF \E i \in DOMAIN cs : cs[i] = LF
  THEN SubSeq(cs, 1, CHOOSE i \in DOMAIN cs : cs[i] = LF /\ \A j \in 1..(i - 1) : cs[j] # LF)
  ELSE cs

\* the bytes as they are
KeepNewlines(cs) == cs

RECURSIVE normalizeNewlines(_)
normalizeNewlines(cs) ==
  IF cs = <<>> THEN <<>>
  ELSE IF Head(cs) = CR /\ Len(cs) >= 2 /\ cs[2] = LF
  THEN <<LF>> \o normalizeNewlines(SubSeq(cs, 3, Len(cs)))
  ELSE IF Head(cs) = CR THEN <<LF>> \o normalizeNewlines(Tail(cs))
  ELSE <<Head(cs)>> \o normalizeNewlines(Tail(cs))

ValidString(cs) == \A i \in DOMAIN cs : cs[i] # BadByte

endsWithNewline(b) == Len(b) > 0 /\ b[Len(b)] = LF
endsWithTwoNewlines(b) == Len(b) > 1 /\ b[Len(b)] = LF /\ b[Len(b) - 1] = LF
TrimLastByte(b) == IF b = <<>> THEN b ELSE SubSeq(b, 1, Len(b) - 1)

\* the chunk loop over one file: [err, b]
RECURSIVE ReadChunks(_, _)
ReadChunks(b, rest) ==
  IF rest = <<>> THEN [err |-> FALSE, b |-> b]
  ELSE LET raw == ReadString(rest)
           chunk == normalizeNewlines(raw)
       IN IF ~ValidString(chunk) THEN [err |-> TRUE, b |-> <<>>]
          ELSE ReadChunks(b \o chunk, SubSeq(rest, Len(raw) + 1, Len(rest)))

RECURSIVE ReadFiles(_, _)
ReadFiles(b, files) ==
  IF files = <<>> THEN [err |-> FALSE, b |-> b]
  ELSE LET r == ReadChunks(b, Head(files))
       IN IF r.err THEN r
          ELSE ReadFiles(IF Len(files) > 1 /\ ~endsWithNewline(r.b)
                         THEN Append(r.b, LF) ELSE r.b,
                         Tail(files))

RECURSIVE TrimNewlines(_)
TrimNewlines(b) == IF endsWithTwoNewlines(b) THEN TrimNewlines(TrimLastByte(b)) ELSE b

\* readAndNormalize: [err, b]
readAndNormalize(files) ==
  LET r == ReadFiles(<<>>, files)
  IN IF r.err THEN r
     ELSE [err |-> FALSE,
           b |-> IF endsWithNewline(TrimNewlines(r.b)) THEN TrimNewlines(r.b)
                 ELSE Append(TrimNewlines(r.b), LF)]
(***************************************************************************)
(* Structured documents (BlendStructured).  A value is what the decoders    *)
(* put into an `any`: nil, a string, a bool, a number of some Go type, a   *)
(* []any or a map[string]any; t is its dynamic type.  A file is the value  *)
(* the decoder of the target's format returns for it (yaml: int and        *)
(* float64 numbers; json: float64 numbers; toml: a table, int64 and        *)
(* float64 numbers, no nil), or blank, or a file that cannot be read, or   *)
(* a file the decoder rejects.                                             *)
(***************************************************************************)
Nil == [t |-> "nil", s |-> "", n |-> 0, a |-> <<>>, m |-> EmptyMap]
Str(v) == [t |-> "str", s |-> v, n |-> 0, a |-> <<>>, m |-> EmptyMap]
Arr(vs) == [t |-> "arr", s |-> "", n |-> 0, a |-> vs, m |-> EmptyMap]
Map(f) == [t |-> "map", s |-> "", n |-> 0, a |-> <<>>, m |-> f]
\* a bool: n is 1 for true
Bool(b) == [t |-> "bool", s |-> "", n |-> IF b THEN 1 ELSE 0, a |-> <<>>, m |-> EmptyMap]
\* a number of the Go type sub; an integer type holds n, a float type n/2
Num(sub, n) == [t |-> sub, s |-> "", n |-> n, a |-> <<>>, m |-> EmptyMap]
\* a file of white space only
Blank == [t |-> "blank", s |-> "", n |-> 0, a |-> <<>>, m |-> EmptyMap]
\* a file os.ReadFile fails on
Unreadable == [t |-> "unreadable", s |-> "", n |-> 0, a |-> <<>>, m |-> EmptyMap]
\* a file yaml.Unmarshal, json.Unmarshal or toml.Unmarshal fails on
Malformed == [t |-> "malformed", s |-> "", n |-> 0, a |-> <<>>, m |-> EmptyMap]

IntTypes == {"int", "int8", "int16", "int32", "int64"}
UintTypes == {"uint", "uint8", "uint16", "uint32", "uint64"}
FloatTypes == {"float32", "float64"}

\* fmt.Sprintf("%d", n)
Digits == <<"0", "1", "2", "3", "4", "5", "6", "7", "8", "9">>
RECURSIVE FmtD(_)
FmtD(n) ==
  IF n < 0 THEN "-" \o FmtD(0 - n)
  ELSE IF n < 10 THEN Digits[n + 1]
  ELSE FmtD(n \div 10) \o Digits[(n % 10) + 1]

\* fmt.Sprintf("%g", h/2), for the halves below a million the documents hold
RECURSIVE FmtG(_)
FmtG(h) ==
  IF h < 0 THEN "-" \o FmtG(0 - h)
  ELSE IF h % 2 = 0 THEN FmtD(h \div 2)
  ELSE FmtD(h \div 2) \o ".5"

RECURSIVE clone(_)
RECURSIVE cloneSlice(_)
RECURSIVE CloneKeys(_, _, _)

\* for k, v2 := range t { out[k] = clone(v2) }, on every out of O
CloneKeys(O, t, keys) ==
  IF keys = <<>> THEN O
  ELSE CloneKeys({Put(out, Head(keys), c) : out \in O, c \in clone(Get(t, Head(keys)))},
                 t, Tail(keys))

\* cloneSlice: the copies of the slice
cloneSlice(vs) ==
  IF vs = <<>> THEN {<<>>}
  ELSE {<<c>> \o rest : c \in clone(Head(vs)), rest \in cloneSlice(Tail(vs))}

\* clone: the copies of the value
clone(v) ==
  IF v.t = "map"
  THEN {Map(out) : out \in UNION {CloneKeys({EmptyMap}, v.m, ks) : ks \in Perms(Keys(v.m))}}
  ELSE IF v.t = "arr" THEN {Arr(c) : c \in cloneSlice(v.a)}
  ELSE {v}

\* a key that tells the Go types of numbers apart
TypedKey(x) ==
  IF x.t \in {"arr", "map"} THEN ""
  ELSE x.t \o ":" \o x.s \o FmtD(x.n)

\* the key uniqueAppend gives an element: "" when it is not deduplicated
ElemKey(x) ==
  IF x.t = "str" THEN "s:" \o x.s
  ELSE IF x.t = "bool" THEN (IF x.n = 1 THEN "b:1" ELSE "b:0")
  ELSE IF x.t = "nil" THEN "n:"
  ELSE IF x.t \in IntTypes THEN "i:" \o FmtD(x.n)
  ELSE IF x.t \in UintTypes THEN "u:" \o FmtD(x.n)
  ELSE IF x.t \in FloatTypes THEN "f:" \o FmtG(x.n)
  ELSE ""

\* one loop of uniqueAppend over xs: [out, seen]
RECURSIVE UniqueLoop(_, _)
UniqueLoop(acc, xs) ==
  IF xs = <<>> THEN acc
  ELSE IF ElemKey(Head(xs)) # "" /\ ElemKey(Head(xs)) \in acc.seen
  THEN UniqueLoop(acc, Tail(xs))
  ELSE UniqueLoop([out |-> Append(acc.out, Head(xs)),
                   seen |-> IF ElemKey(Head(xs)) # ""
                            THEN acc.seen \cup {ElemKey(Head(xs))} ELSE acc.seen],
                  Tail(xs))

uniqueAppend(a, b) == UniqueLoop(UniqueLoop([out |-> <<>>, seen |-> {}], a), b).out

RECURSIVE mergeAny(_, _, _)
RECURSIVE MergeKeys(_, _, _, _)

\* for k, v2 := range nmap { ... }, on every out of O
MergeKeys(O, nmap, keys, rules) ==
  IF keys = <<>> THEN O
  ELSE MergeKeys(UNION {IF Head(keys) \in Keys(out)
                        THEN {Put(out, Head(keys), x) :
                                x \in mergeAny(Get(out, Head(keys)),
                                               Get(nmap, Head(keys)), rules)}
                        ELSE {Put(out, Head(keys), c) :
                                c \in clone(Get(nmap, Head(keys)))}
                        : out \in O},
                 nmap, Tail(keys), rules)

\* the later value whatever the earlier one is
mergeShallow(base, next, rules) == clone(next)

\* mergeAny: the values it can return; rules is [maps, arrays]
mergeAny(base, next, rules) ==
  IF base.t = "nil" THEN clone(next)
  ELSE IF next.t = "nil" THEN {base}
  ELSE IF base.t = "map"
  THEN IF next.t # "map" THEN clone(next)
       ELSE IF rules.maps = "replace" THEN clone(next)
       ELSE {Map(out) :
               out \in UNION {MergeKeys(UNION {CloneKeys({EmptyMap}, base.m, bs) :
                                                 bs \in Perms(Keys(base.m))},
                                        next.m, ns, rules) : ns \in Perms(Keys(next.m))}}
  ELSE IF base.t = "arr"
  THEN IF next.t # "arr" THEN clone(next)
       ELSE IF rules.arrays = "append"
       THEN {Arr(x \o y) : x \in cloneSlice(base.a), y \in cloneSlice(next.a)}
       ELSE IF rules.arrays = "unique_append"
       THEN {Arr(uniqueAppend(x, y)) : x \in cloneSlice(base.a), y \in cloneSlice(next.a)}
       ELSE clone(next)
  ELSE clone(next)

\* the loop of BlendStructured over the files, on every acc of A
RECURSIVE MergeDocs(_, _, _)
MergeDocs(A, docs, rules) ==
  IF docs = <<>> THEN A
  ELSE MergeDocs(IF Head(docs).t = "blank" THEN A
                 ELSE UNION {mergeAny(acc, Head(docs), rules) : acc \in A},
                 Tail(docs), rules)

\* the keys of a map in the order the three encoders write them
SortedKeys(m) == SortStrings(CHOOSE ks \in Perms(Keys(m)) : TRUE)

\* json.MarshalIndent(acc, "", "  "): the keys of a map in sorted order; a
\* float64 is written in its shortest form, 3 for 3.0
RECURSIVE Marshal(_, _)
RECURSIVE MarshalElems(_, _)
RECURSIVE MarshalMembers(_, _, _)

MarshalElems(vs, depth) ==
  IF vs = <<>> THEN ""
  ELSE Repeat("  ", depth) \o Marshal(Head(vs), depth)
       \o (IF Len(vs) > 1 THEN ",\n" ELSE "\n") \o MarshalElems(Tail(vs), depth)

MarshalMembers(m, keys, depth) ==
  IF keys = <<>> THEN ""
  ELSE Repeat("  ", depth) \o "\"" \o Head(keys) \o "\": " \o Marshal(Get(m, Head(keys)), depth)
       \o (IF Len(keys) > 1 THEN ",\n" ELSE "\n") \o MarshalMembers(m, Tail(keys), depth)

Marshal(v, depth) ==
  IF v.t = "nil" THEN "null"
  ELSE IF v.t = "str" THEN "\"" \o v.s \o "\""
  ELSE IF v.t = "bool" THEN (IF v.n = 1 THEN "true" ELSE "false")
  ELSE IF v.t \in IntTypes \cup UintTypes THEN FmtD(v.n)
  ELSE IF v.t \in FloatTypes THEN FmtG(v.n)
  ELSE IF v.t = "arr"
  THEN IF v.a = <<>> THEN "[]"
       ELSE "[\n" \o MarshalElems(v.a, depth + 1) \o Repeat("  ", depth) \o "]"
  ELSE IF v.m = EmptyMap THEN "{}"
       ELSE "{\n" \o MarshalMembers(v.m, SortedKeys(v.m), depth + 1)
            \o Repeat("  ", depth) \o "}"

\* yaml.Marshal(acc) of yaml.v3: block style, the keys of a map in sorted
\* order, an empty collection in flow style.  A block under a key stands at
\* the next multiple of four after the column of the key; a block that is
\* an item of a sequence starts behind the dash and a space, two columns in.
\* A string is quoted when, plain, it would be read as a value of another
\* type.
YamlString(s) ==
  IF s \in {"", "~", "null", "true", "false", "1", "2", "3"} THEN "\"" \o s \o "\"" ELSE s

YamlScalar(v) ==
  IF v.t = "nil" THEN "null"
  ELSE IF v.t = "str" THEN YamlString(v.s)
  ELSE IF v.t = "bool" THEN (IF v.n = 1 THEN "true" ELSE "false")
  ELSE IF v.t \in FloatTypes THEN FmtG(v.n)
  ELSE FmtD(v.n)

\* a value written on the line of its key or of its dash
YamlFlow(v) ==
  IF v.t = "map" THEN "{}" ELSE IF v.t = "arr" THEN "[]" ELSE YamlScalar(v)

\* a collection written as a block of lines
YamlIsBlock(v) == (v.t = "map" /\ v.m # EmptyMap) \/ (v.t = "arr" /\ v.a # <<>>)

RECURSIVE YamlBlock(_, _)
RECURSIVE YamlEntries(_, _, _, _)
RECURSIVE YamlItems(_, _, _)

\* the column of a block under a key of a mapping at column col
YamlUnder(col) == 4 * ((col + 4) \div 4)

\* the entries of a mapping at column col; the writer stands at col for the
\* first one
YamlEntries(m, keys, col, first) ==
  IF keys = <<>> THEN ""
  ELSE (IF first THEN "" ELSE Repeat(" ", col)) \o Head(keys) \o ":"
       \o (IF YamlIsBlock(Get(m, Head(keys)))
           THEN "\n" \o Repeat(" ", YamlUnder(col))
                \o YamlBlock(Get(m, Head(keys)), YamlUnder(col))
           ELSE " " \o YamlFlow(Get(m, Head(keys))) \o "\n")
       \o YamlEntries(m, Tail(keys), col, FALSE)

\* the items of a sequence at column col; a block item starts on the line
\* of its dash, at col + 2
YamlItems(vs, col, first) ==
  IF vs = <<>> THEN ""
  ELSE (IF first THEN "" ELSE Repeat(" ", col)) \o "- "
       \o (IF YamlIsBlock(Head(vs))
           THEN YamlBlock(Head(vs), col + 2)
           ELSE YamlFlow(Head(vs)) \o "\n")
       \o YamlItems(Tail(vs), col, FALSE)

YamlBlock(v, col) ==
  IF v.t = "map" THEN YamlEntries(v.m, SortedKeys(v.m), col, TRUE)
  ELSE YamlItems(v.a, col, TRUE)

yamlMarshal(v) == IF YamlIsBlock(v) THEN YamlBlock(v, 0) ELSE YamlFlow(v) \o "\n"

\* toml.Marshal(acc) of go-toml v2, acc a table (toml.Unmarshal returns
\* nothing else, and mergeAny of two maps is a map): of a table first the
\* key/value lines, then the sub-tables, each list in key order; a value
\* that is a table, or a non-empty array of tables only, is written as a
\* table; a key holding nil is left out
TomlFloat(h) == IF h % 2 = 0 THEN FmtD(h \div 2) \o ".0" ELSE FmtG(h)

RECURSIVE TomlInline(_)
RECURSIVE TomlInlineElems(_)
RECURSIVE TomlInlinePairs(_, _)

TomlInlineElems(vs) ==
  IF vs = <<>> THEN ""
  ELSE TomlInline(Head(vs)) \o (IF Len(vs) > 1 THEN ", " ELSE "") \o TomlInlineElems(Tail(vs))

TomlInlinePairs(m, keys) ==
  IF keys = <<>> THEN ""
  ELSE Head(keys) \o " = " \o TomlInline(Get(m, Head(keys)))
       \o (IF Len(keys) > 1 THEN ", " ELSE "") \o TomlInlinePairs(m, Tail(keys))

\* a value on the line of its key
TomlInline(v) ==
  IF v.t = "str" THEN "'" \o v.s \o "'"
  ELSE IF v.t = "bool" THEN (IF v.n = 1 THEN "true" ELSE "false")
  ELSE IF v.t \in FloatTypes THEN TomlFloat(v.n)
  ELSE IF v.t = "arr" THEN "[" \o TomlInlineElems(v.a) \o "]"
  ELSE IF v.t = "map"
  THEN "{" \o TomlInlinePairs(v.m, SelectSeq(SortedKeys(v.m),
                                             LAMBDA k : Get(v.m, k).t # "nil")) \o "}"
  ELSE FmtD(v.n)

\* willConvertToTableOrArrayTable
TomlIsTable(v) ==
  IF v.t = "arr" THEN v.a # <<>> /\ \A i \in DOMAIN v.a : v.a[i].t = "map"
  ELSE v.t = "map"

RECURSIVE TomlTable(_, _, _)
RECURSIVE TomlLines(_, _)
RECURSIVE TomlArrayTable(_, _, _)
RECURSIVE TomlSubTables(_, _, _, _)

TomlLines(m, keys) ==
  IF keys = <<>> THEN ""
  ELSE Head(keys) \o " = " \o TomlInline(Get(m, Head(keys))) \o "\n" \o TomlLines(m, Tail(keys))

\* encodeSliceAsArrayTable: a [[path]] header before each element
TomlArrayTable(vs, path, first) ==
  IF vs = <<>> THEN ""
  ELSE (IF first THEN "" ELSE "\n") \o "[[" \o path \o "]]\n"
       \o TomlTable(Head(vs).m, path, FALSE) \o TomlArrayTable(Tail(vs), path, FALSE)

\* the sub-tables of the table path; gap: an empty line comes first
TomlSubTables(m, keys, path, gap) ==
  IF keys = <<>> THEN ""
  ELSE LET v == Get(m, Head(keys))
           p == IF path = "" THEN Head(keys) ELSE path \o "." \o Head(keys)
       IN (IF gap THEN "\n" ELSE "")
          \o (IF v.t = "map" THEN TomlTable(v.m, p, TRUE) ELSE TomlArrayTable(v.a, p, TRUE))
          \o TomlSubTables(m, Tail(keys), path, TRUE)

\* encodeTable: the header unless the table is the root or an element of an
\* array of tables
TomlTable(m, path, header) ==
  LET kvs == SelectSeq(SortedKeys(m),
                       LAMBDA k : Get(m, k).t # "nil" /\ ~TomlIsTable(Get(m, k)))
      tables == SelectSeq(SortedKeys(m), LAMBDA k : TomlIsTable(Get(m, k)))
  IN (IF header /\ path # "" THEN "[" \o path \o "]\n" ELSE "")
     \o TomlLines(m, kvs) \o TomlSubTables(m, tables, path, kvs # <<>>)

tomlMarshal(v) == TomlTable(v.m, "", FALSE)

StructuredFormats == {"yaml", "json", "toml"}

\* the error the loop over the files returns with, "" when it ends
RECURSIVE LoopError(_, _)
LoopError(f, docs) ==
  IF docs = <<>> THEN ""
  ELSE IF Head(docs).t = "unreadable" THEN "read"
  ELSE IF Head(docs).t = "blank" THEN LoopError(f, Tail(docs))
  ELSE IF f \notin StructuredFormats THEN "unsupported format for BlendStructured"
  ELSE IF Head(docs).t = "malformed"
  THEN (IF f = "yaml" THEN "parse YAML" ELSE IF f = "json" THEN "parse JSON"
        ELSE "parse TOML")
  ELSE LoopError(f, Tail(docs))

\* the documents the fold over the files can leave in acc
FoldDocs(rules, docs) ==
  {IF acc.t = "nil" THEN Map(EmptyMap) ELSE acc : acc \in MergeDocs({Nil}, docs, rules)}

\* the text of acc in the format f, with a newline added when it does not
\* end with one: always for json, for the empty table of toml, never for
\* yaml
Serialized(f, acc) ==
  IF f = "yaml" THEN yamlMarshal(acc)
  ELSE IF f = "json" THEN Marshal(acc, 0) \o "\n"
  ELSE IF tomlMarshal(acc) = "" THEN "\n" ELSE tomlMarshal(acc)

\* the error BlendStructured returns, "" for nil
StructuredError(format, rules, docs) ==
  IF ~rules.ptr THEN "merge rules required"
  ELSE IF LoopError(ToLower(format), docs) # "" THEN LoopError(ToLower(format), docs)
  ELSE IF ToLower(format) \notin StructuredFormats THEN "unsupported format"
  ELSE ""

\* BlendStructured: what it can return
BlendStructured(format, rules, docs) ==
  IF StructuredError(format, rules, docs) # ""
  THEN {Fail(StructuredError(format, rules, docs))}
  ELSE {Ok(Serialized(ToLower(format), acc)) : acc \in FoldDocs(rules, docs)}
(***************************************************************************)
(* buildContentAndChecksum (run.go 303-333) on the contents of the planned *)
(* files: what a build can return, as [err, bytes, sum].  On the merge     *)
(* path the bytes are the content returned, on the concat path what        *)
(* BuildAndWrite writes and SHA256OfFiles hashes.                          *)
(***************************************************************************)
MergeFormats == {"yaml", "json", "toml", "kdl", "ini"}

Built(content) == [err |-> FALSE, bytes |-> content, sum |-> sha256Hex(content)]
BuildError == [err |-> TRUE, bytes |-> "", sum |-> ""]

\* what a blender returned, as the builder returns it
BuildResult(r) == IF r.err # "" THEN BuildError ELSE Built(r.s)

BuilderOutcomes(in) ==
  IF in.merge /\ ToLower(in.format) \in MergeFormats
  THEN {BuildResult(r) :
          r \in IF ToLower(in.format) = "kdl" THEN BlendKDL(in.rules, in.files)
                ELSE IF ToLower(in.format) = "ini" THEN BlendINI(in.rules, in.files)
                ELSE BlendStructured(ToLower(in.format), in.rules, in.files)}
  ELSE IF readAndNormalize(in.files).err THEN {BuildError}
       ELSE {Built(Flat(readAndNormalize(in.files).b))}

\* the error the blender of the target returns, "" for nil
BlenderError(in) ==
  IF ToLower(in.format) = "kdl" THEN KdlError(in.rules, in.files)
  ELSE IF ToLower(in.format) = "ini" THEN IniError(in.rules, in.files)
  ELSE StructuredError(ToLower(in.format), in.rules, in.files)

\* one execution with what it serialized: [mid, out]; mid is empty when a
\* blender returned an error
BuilderRuns(in) ==
  IF in.merge /\ ToLower(in.format) \in MergeFormats
  THEN IF BlenderError(in) # "" THEN {[mid |-> <<>>, out |-> BuildError]}
       ELSE IF ToLower(in.format) = "kdl"
       THEN {[mid |-> root, out |-> Built(renderKDL(root, 0))] :
               root \in BlendFragments({newNode("__root__", "")}, in.files, in.rules)}
       ELSE IF ToLower(in.format) = "ini"
       THEN {[mid |-> b, out |-> Built(JoinLines(b))] : b \in RenderINI(in.rules, in.files)}
       ELSE {[mid |-> acc, out |-> Built(Serialized(ToLower(in.format), acc))] :
               acc \in FoldDocs(in.rules, in.files)}
  ELSE LET r == readAndNormalize(in.files)
       IN {[mid |-> r.b, out |-> IF r.err THEN BuildError ELSE Built(Flat(r.b))]}

(***************************************************************************)
(* The targets and files the builder is run on.                            *)
(***************************************************************************)
\* config.MergeRules
MergeRules(maps, arrays, keys, sectionKeys, repeatedKeys) ==
  [ptr |-> TRUE, maps |-> maps, arrays |-> arrays, keys |-> keys,
   section_keys |-> sectionKeys, repeated_keys |-> repeatedKeys]

\* a nil *config.MergeRules
NilRules == [MergeRules("", "", "", {}, "") EXCEPT !.ptr = FALSE]

NoRules == MergeRules("", "", "", {}, "")

\* the node parseKDL builds for a block: its property lines kvs in order
\* (setProp in mode append), then its child blocks cs in order (appendChild)
RECURSIVE WithProps(_, _)
WithProps(n, kvs) ==
  IF kvs = <<>> THEN n
  ELSE WithProps(setProp(n, Head(kvs)[1], Head(kvs)[2], "append"), Tail(kvs))

RECURSIVE WithChildren(_, _)
WithChildren(n, cs) ==
  IF cs = <<>> THEN n
  ELSE WithChildren(appendChild(n, Head(cs).Name, Head(cs)), Tail(cs))

Block(name, head, kvs, cs) == WithChildren(WithProps(newNode(name, head), kvs), cs)

\* the tree parseKDL returns for a file of the top-level blocks cs
Fragment(cs) == WithChildren(newNode("__root__", ""), cs)

KdlBlocks ==
  { Block("n1", "", << <<"k1", "v1">> >>, <<>>),
    Block("n1", "h", << <<"k2", "v2">>, <<"k1", "v1">> >>, <<>>),
    Block("n1", "", << <<"k1", "v2">>, <<"k1", "">> >>,
          << Block("n2", "", << <<"k1", "v1">> >>, <<>>), Block("n1", "h", <<>>, <<>>) >>),
    Block("n2", "", <<>>,
          << Block("n1", "", << <<"k2", "v1">> >>, <<>>),
             Block("n2", "", << <<"k1", "v2">>, <<"k2", "v1">> >>, <<>>) >>),
    Block("n2", "h", << <<"k2", "v1">>, <<"k1", "v2">>, <<"k2", "">> >>,
          << Block("n2", "", <<>>, <<>>), Block("n1", "h", << <<"k1", "v1">> >>, <<>>),
             Block("n2", "", << <<"k2", "v2">> >>, <<>>) >>) }

NonEmptySeqsOf(S, n) == SeqsOf(S, n) \ {<<>>}

KdlInputs ==
  {[format |-> "kdl", merge |-> TRUE, rules |-> MergeRules("", "", keys, sk, ""),
    files |-> fs] :
     keys \in {"last_wins", "first_wins", "append"}, sk \in {{}, {"n1"}},
     fs \in NonEmptySeqsOf({Fragment(cs) : cs \in SeqsOf(KdlBlocks, MaxBlocks)}, MaxFiles)}

IniLineKinds ==
  {Hdr("n1"), Hdr(""), KV("k1", "v1"), KV("k2", "v2"), KV("k1", "v2"), Skip}

IniInputs ==
  {[format |-> "ini", merge |-> TRUE, rules |-> MergeRules("", "", "", {}, rk),
    files |-> fs] :
     rk \in {"", "append"},
     fs \in NonEmptySeqsOf(SeqsOf(IniLineKinds, MaxLines), MaxFiles)}

Map2(k1, v1, k2, v2) == Map(Put(Put(EmptyMap, k1, v1), k2, v2))

\* rules of a yaml, json or toml target
StructuredRules ==
  {MergeRules(maps, arrays, "", {}, "") :
     maps \in {"deep", "replace"}, arrays \in {"replace", "append", "unique_append"}}

JsonDocs ==
  { Blank, Nil, Str("v1"),
    Map(Put(EmptyMap, "k1", Str("v1"))),
    Map2("k2", Str("v2"), "k1", Map2("k1", Str("v1"), "k2", Arr(<<Str("v1"), Nil>>))),
    Map2("k1", Map2("k2", Arr(<<Str("v2"), Str("v1"), Map(EmptyMap)>>), "k1", Nil),
         "k2", Arr(<<>>)),
    Map2("k1", Arr(<<Str("v1"), Str("v1")>>), "k2", Map(Put(EmptyMap, "k1", Str("v2")))),
    Map2("k1", Bool(TRUE), "k2", Arr(<<Num("float64", 6), Bool(FALSE), Num("float64", 3)>>)),
    Map2("k1", Num("float64", 84), "k2", Arr(<<Num("float64", 3), Str("v1")>>)) }

JsonInputs ==
  {[format |-> "json", merge |-> TRUE, rules |-> rules, files |-> fs] :
     rules \in StructuredRules, fs \in NonEmptySeqsOf(JsonDocs, MaxFiles)}

YamlDocs ==
  { Blank, Nil, Str(""),
    Map(Put(EmptyMap, "k1", Str("v1"))),
    Map2("k1", Map2("k1", Bool(TRUE), "k2", Num("int", 3)),
         "k2", Arr(<<Num("int", 42), Str("v1"), Nil>>)),
    Map2("k1", Map2("k2", Num("float64", 3), "k1", Map(EmptyMap)),
         "k2", Arr(<<Map2("k1", Str("v1"), "k2", Arr(<<>>)), Arr(<<Str("v2"), Num("int", 42)>>)>>)),
    Arr(<<Str("v1"), Map(Put(EmptyMap, "k2", Arr(<<Bool(FALSE)>>)))>>) }

YamlInputs ==
  {[format |-> "yaml", merge |-> TRUE, rules |-> rules, files |-> fs] :
     rules \in StructuredRules, fs \in NonEmptySeqsOf(YamlDocs, MaxFiles)}

\* a toml file is a table
TomlDocs ==
  { Blank, Map(EmptyMap),
    Map(Put(EmptyMap, "k1", Str("v1"))),
    Map2("k1", Map2("k1", Bool(TRUE), "k2", Num("int64", 3)),
         "k2", Arr(<<Num("int64", 42), Num("int64", 3)>>)),
    Map2("k1", Map2("k2", Num("float64", 3), "k1", Map(Put(EmptyMap, "k2", Num("float64", 6)))),
         "k2", Arr(<<Num("int64", 3), Str("v1"), Arr(<<>>)>>)),
    Map2("k1", Arr(<<Map(Put(EmptyMap, "k1", Str("v1"))), Map2("k2", Bool(FALSE), "k1", Map(EmptyMap))>>),
         "k2", Arr(<<Map(Put(EmptyMap, "k1", Str("v2"))), Str("v1")>>)) }

TomlInputs ==
  {[format |-> "toml", merge |-> TRUE, rules |-> rules, files |-> fs] :
     rules \in StructuredRules, fs \in NonEmptySeqsOf(TomlDocs, MaxFiles)}

\* targets one of whose files the blender cannot read or parse, behind a
\* file it can, and a target whose format is spelled in capitals
FailingInputs ==
  {[format |-> "kdl", merge |-> TRUE, rules |-> MergeRules("", "", "last_wins", {}, ""),
    files |-> <<Fragment(<<>>), bad>>] : bad \in {UnreadableKdl, UnmatchedKdl, UnclosedKdl}}
  \cup {[format |-> "ini", merge |-> TRUE, rules |-> MergeRules("", "", "", {}, "last_wins"),
         files |-> <<<<KV("k1", "v1")>>, UnreadableIni>>]}
  \cup {[format |-> f, merge |-> TRUE, rules |-> MergeRules("deep", "replace", "", {}, ""),
         files |-> <<good, bad>>] :
          f \in {"yaml", "json", "toml", "JSON"}, good \in {Blank, Map(EmptyMap)},
          bad \in {Unreadable, Malformed, Map(Put(EmptyMap, "k1", Str("v1")))}}

\* targets of the concat path: no merge block, or a format that is not merged
ConcatInputs ==
  {[format |-> fm[1], merge |-> fm[2], rules |-> NoRules, files |-> fs] :
     fm \in {<<"", FALSE>>, <<"txt", TRUE>>},
     fs \in NonEmptySeqsOf(SeqsOf({"x", LF, CR, BadByte}, MaxChars), MaxFiles)}

InitBuild ==
  /\ DaemonInit
  /\ WriteIdle
  /\ PlanIdle
  /\ bOut = <<NoOut, NoOut>>
  /\ bMid = <<>>
  /\ \/ bIn \in KdlInputs
     \/ bIn \in IniInputs
     \/ bIn \in JsonInputs
     \/ bIn \in YamlInputs
     \/ bIn \in TomlInputs
     \/ bIn \in FailingInputs
     \/ bIn \in ConcatInputs

\* the first execution of the builder
BuildFirst ==
  /\ bOut[1] = NoOut
  /\ \E r \in BuilderOutcomes(bIn) : bOut' = [bOut EXCEPT ![1] = r]
  /\ UNCHANGED <<bIn, bMid, daemonVars, writeVars, planVars>>

\* the second execution, on the same target and file contents
BuildAgain ==
  /\ bOut[1] # NoOut
  /\ bOut[2] = NoOut
  /\ \E r \in BuilderOutcomes(bIn) : bOut' = [bOut EXCEPT ![2] = r]
  /\ UNCHANGED <<bIn, bMid, daemonVars, writeVars, planVars>>

NextBuild ==
  \/ BuildFirst
  \/ BuildAgain

SpecBuild == InitBuild /\ [][NextBuild]_vars

\* C10: two executions of the builder on the same target and the same file
\* contents return the same bytes and the same sum (or both fail), whatever
\* order the ranges over maps took in each.
C10_BuildDeterministic ==
  (bOut[1] # NoOut /\ bOut[2] # NoOut) => bOut[1] = bOut[2]

\* both executions have returned for a kdl target of two fragments whose
\* merged tree depends on the order the maps were ranged over
C10_Witness ==
  /\ bOut[1] # NoOut /\ bOut[2] # NoOut
  /\ bIn.format = "kdl" /\ Len(bIn.files) = MaxFiles
  /\ Cardinality(BlendFragments({newNode("__root__", "")}, bIn.files, bIn.rules)) > 1

(***************************************************************************)
(* Part IV.  The planner: PlanTarget on a filesystem snapshot.             *)
(*                                                                         *)
(* The directory / holds the entries a, b and d.  A source path is given   *)
(* as the loop has it after expandTilde and the join with the base         *)
(* directory: absolute, and clean unless the configuration spelled an      *)
(* absolute path with a dot component.                                     *)
(***************************************************************************)
PlanPaths == {"/a", "/b", "/d"}
RawPaths == PlanPaths \cup {"/./a"}
GlobPatterns == {"/*", "/[ab]", "/z*"}

\* filepath.Abs of an absolute path: filepath.Clean
Abs(p) == IF p = "/./a" THEN "/a" ELSE p

\* strings.ContainsAny(p, "*?[")
hasGlob(p) == p \in GlobPatterns

\* the entries of / a pattern matches
Covered(p) ==
  IF p = "/*" THEN PlanPaths ELSE IF p = "/[ab]" THEN {"/a", "/b"} ELSE {}

\* a snapshot: the paths that are regular files and those that are directories
Exists(fs) == fs.files \cup fs.dirs

\* os.Stat(p)
Stat(p, fs) ==
  IF Abs(p) \in fs.files THEN "file" ELSE IF Abs(p) \in fs.dirs THEN "dir" ELSE "none"

\* filepath.Glob(p): the existing entries the pattern matches, files and
\* directories alike, in the order src.order the platform lists them
Glob(src, fs) == SelectSeq(src.order, LAMBDA x : x \in Exists(fs))

\* as if no source were optional
NeverOptional(src) == FALSE

\* src.Optional
IsOptional(src) == src.optional

PlanFail == [err |-> TRUE, m |-> <<>>]

\* the matches of one source (the first half of the loop body): [err, m];
\* a skipped source has no matches
SourceMatches(src, fs) ==
  IF hasGlob(src.path)
  THEN LET m == IF src.sort # "none" THEN SortStrings(Glob(src, fs)) ELSE Glob(src, fs)
       IN IF m = <<>> /\ ~IsOptional(src) THEN PlanFail ELSE [err |-> FALSE, m |-> m]
  ELSE IF Stat(src.path, fs) = "none"
  THEN IF IsOptional(src) THEN [err |-> FALSE, m |-> <<>>] ELSE PlanFail
  ELSE IF Stat(src.path, fs) = "dir" THEN PlanFail
  ELSE [err |-> FALSE, m |-> <<src.path>>]

\* every match goes to files
AdmitAll(st, abs, dedupe) == [st EXCEPT !.files = Append(@, abs)]

\* the dedupe policy on one match: st is [files, deduped, seen]
Admit(st, abs, dedupe) ==
  IF dedupe = "by_path"
  THEN IF abs \in st.seen THEN [st EXCEPT !.deduped = Append(@, abs)]
       ELSE [st EXCEPT !.seen = @ \cup {abs}, !.files = Append(@, abs)]
  ELSE [st EXCEPT !.files = Append(@, abs)]

\* for _, m := range matches
RECURSIVE AdmitMatches(_, _, _)
AdmitMatches(st, ms, dedupe) ==
  IF ms = <<>> THEN st
  ELSE AdmitMatches(Admit(st, Abs(Head(ms)), dedupe), Tail(ms), dedupe)

PlanError == [done |-> TRUE, err |-> TRUE, files |-> <<>>, deduped |-> <<>>]

\* for i, src := range t.Sources, and the check of the file list after it
RECURSIVE PlanSources(_, _, _, _)
PlanSources(st, sources, dedupe, fs) ==
  IF sources = <<>>
  THEN IF st.files = <<>> THEN PlanError
       ELSE [done |-> TRUE, err |-> FALSE, files |-> st.files, deduped |-> st.deduped]
  ELSE LET r == SourceMatches(Head(sources), fs)
       IN IF r.err THEN PlanError
          ELSE PlanSources(AdmitMatches(st, r.m, dedupe), Tail(sources), dedupe, fs)

\* PlanTarget: [done, err, files, deduped]
PlanTarget(sources, dedupe, fs) ==
  PlanSources([files |-> <<>>, deduped |-> <<>>, seen |-> {}], sources, dedupe, fs)

(***************************************************************************)
(* The targets and snapshots PlanTarget is called on.                      *)
(***************************************************************************)
Literal(p, opt) ==
  [path |-> p, order |-> <<>>, sort |-> "lex", optional |-> opt]
Pattern(p, order, sort, opt) ==
  [path |-> p, order |-> order, sort |-> sort, optional |-> opt]

PlanSourceSet ==
  {Literal(p, opt) : p \in RawPaths, opt \in BOOLEAN}
  \cup UNION {{Pattern(p, o, srt, opt) :
                 o \in Perms(Covered(p)), srt \in {"lex", "none"}, opt \in BOOLEAN} :
              p \in GlobPatterns}

Snapshots ==
  {[files |-> F \cup D[1], dirs |-> D[2]] :
     F \in SUBSET {"/a", "/b"}, D \in {<<{}, {}>>, <<{"/d"}, {}>>, <<{}, {"/d"}>>}}

InitPlan ==
  /\ DaemonInit
  /\ WriteIdle
  /\ BuildIdle
  /\ pOut = NoPlan
  /\ pIn \in {[sources |-> ss, dedupe |-> d, fs |-> fs] :
               ss \in NonEmptySeqsOf(PlanSourceSet, MaxSources),
               d \in {"by_path", "none"}, fs \in Snapshots}

\* one call of PlanTarget
PlanRun ==
  /\ ~pOut.done
  /\ pOut' = PlanTarget(pIn.sources, pIn.dedupe, pIn.fs)
  /\ UNCHANGED <<pIn, daemonVars, writeVars, buildVars>>

NextPlan == PlanRun

SpecPlan == InitPlan /\ [][NextPlan]_vars

NoDup(q) == \A i, j \in DOMAIN q : q[i] = q[j] => i = j

\* the elements of e that occur / do not occur earlier in e, in order
RECURSIVE Occurrences(_, _, _)
Occurrences(e, i, later) ==
  IF i > Len(e) THEN <<>>
  ELSE (IF (\E j \in 1..(i - 1) : e[j] = e[i]) = later THEN <<e[i]>> ELSE <<>>)
       \o Occurrences(e, i + 1, later)

\* the expansion of all sources: what the same target yields with dedupe none
Expansion == PlanTarget(pIn.sources, "none", pIn.fs).files

\* C11: a successful plan of a by_path target lists every absolute path of
\* the expansion once, in the order of first occurrence; every later
\* occurrence is in deduped and not in files; files and deduped together
\* hold exactly the paths of the expansion.
C11_DedupeByPath ==
  (pOut.done /\ ~pOut.err /\ pIn.dedupe = "by_path") =>
     /\ NoDup(pOut.files)
     /\ pOut.files = Occurrences(Expansion, 1, FALSE)
     /\ pOut.deduped = Occurrences(Expansion, 1, TRUE)
     /\ Len(pOut.files) + Len(pOut.deduped) = Len(Expansion)
     /\ Range(pOut.files) \cup Range(pOut.deduped) = Range(Expansion)

\* a plan of two sources that dropped a duplicate and kept two files
C11_Witness ==
  /\ pOut.done /\ ~pOut.err /\ pIn.dedupe = "by_path"
  /\ pOut.deduped # <<>>
  /\ Len(pOut.files) >= 2

\* the sources the claim says make the plan fail, and those it says are skipped
NoMatch(src, fs) ==
  IF hasGlob(src.path) THEN Glob(src, fs) = <<>> ELSE Stat(src.path, fs) = "none"
Failing(src, fs) ==
  \/ ~src.optional /\ NoMatch(src, fs)
  \/ ~hasGlob(src.path) /\ Stat(src.path, fs) = "dir"
Skipped(src, fs) == src.optional /\ NoMatch(src, fs)
Planned == SelectSeq(pIn.sources, LAMBDA src : ~Skipped(src, pIn.fs))

\* C12: the plan fails when some source is a required glob without a match,
\* a required literal that does not exist, or a literal that is a
\* directory; an optional source without a match or whose file is missing
\* changes nothing: the result is that of the same target without it, and
\* without a failing source the plan of the remaining sources succeeds.
C12_OptionalVsRequired ==
  pOut.done =>
     /\ (\E i \in DOMAIN pIn.sources : Failing(pIn.sources[i], pIn.fs)) => pOut.err
     /\ pOut = PlanTarget(Planned, pIn.dedupe, pIn.fs)
     /\ ((\A i \in DOMAIN pIn.sources : ~Failing(pIn.sources[i], pIn.fs))
          /\ Planned # <<>>) => ~pOut.err /\ pOut.files # <<>>

\* a plan that skipped an optional source and planned the other one
C12_Witness ==
  /\ pOut.done /\ ~pOut.err
  /\ Len(pIn.sources) = 2
  /\ Len(Planned) = 1
  /\ pOut.files # <<>>

(***************************************************************************)
(* Properties of the builder, each under the behaviours of one path: one   *)
(* execution, of which the state keeps what it serialized.                 *)
(***************************************************************************)
BuildRun ==
  /\ bOut[1] = NoOut
  /\ \E r \in BuilderRuns(bIn) :
       /\ bOut' = [bOut EXCEPT ![1] = r.out]
       /\ bMid' = r.mid
  /\ UNCHANGED <<bIn, daemonVars, writeVars, planVars>>

InitConcat == InitBuild /\ bIn \in ConcatInputs
SpecConcat == InitConcat /\ [][BuildRun]_vars

\* the lines of a file, ended by LF, CR LF or CR (and by the end of the
\* file), without the empty ones; cur is the line being read
RECURSIVE LinesOf(_, _)
LinesOf(cs, cur) ==
  LET done == IF cur = <<>> THEN <<>> ELSE <<cur>>
  IN IF cs = <<>> THEN done
     ELSE IF Head(cs) = CR /\ Len(cs) >= 2 /\ cs[2] = LF
     THEN done \o LinesOf(SubSeq(cs, 3, Len(cs)), <<>>)
     ELSE IF Head(cs) \in {CR, LF} THEN done \o LinesOf(Tail(cs), <<>>)
     ELSE LinesOf(Tail(cs), Append(cur, Head(cs)))

RECURSIVE LinesOfAll(_)
LinesOfAll(files) ==
  IF files = <<>> THEN <<>> ELSE LinesOf(Head(files), <<>>) \o LinesOfAll(Tail(files))

ValidFiles == \A i \in DOMAIN bIn.files : \A j \in DOMAIN bIn.files[i] : bIn.files[i][j] # BadByte

\* C13: for valid UTF-8 files the normalizer succeeds and its output has no
\* carriage return, ends with exactly one LF, and keeps the contents of
\* adjacent files apart: its non-empty lines are those of the first file,
\* then those of the next, none joined across a file boundary.
C13_NormalizedOutput ==
  (bOut[1] # NoOut /\ ValidFiles) =>
     /\ ~bOut[1].err
     /\ bOut[1].bytes = Flat(bMid)
     /\ \A i \in DOMAIN bMid : bMid[i] # CR
     /\ Len(bMid) >= 1 /\ bMid[Len(bMid)] = LF
     /\ Len(bMid) >= 2 => bMid[Len(bMid) - 1] # LF
     /\ LinesOf(bMid, <<>>) = LinesOfAll(bIn.files)

\* two files, the first ending with a CR LF, the second not ending with a
\* newline after a line ended by a lone CR
C13_Witness ==
  /\ bOut[1] # NoOut /\ ValidFiles
  /\ bIn.files = << <<"x", CR, LF>>, <<"x", CR, "x">> >>

InitKdl == InitBuild /\ bIn \in KdlInputs
SpecKdl == InitKdl /\ [][BuildRun]_vars

\* the top-level names the rules make eligible for merging
Eligible(name) == bIn.rules.section_keys = {} \/ name \in bIn.rules.section_keys

\* no two blocks of the list have the same head
DistinctHeads(list) == \A i, j \in DOMAIN list : list[i].Head = list[j].Head => i = j

\* the names of n are listed once each in the order rendered from
WellListed(n) ==
  /\ NoDup(n.ChildrenOrder)
  /\ Range(n.ChildrenOrder) = Keys(n.Children)

\* below n, at every depth, siblings of one name have distinct heads
RECURSIVE MergedBelow(_)
MergedBelow(n) ==
  /\ WellListed(n)
  /\ \A name \in Keys(n.Children) :
       /\ DistinctHeads(Get(n.Children, name))
       /\ \A i \in DOMAIN Get(n.Children, name) : MergedBelow(Get(n.Children, name)[i])

\* some two siblings of the list have the same head
SameHeadTwice(list) == ~DistinctHeads(list)

\* C15: in the tree BlendKDL renders, the top-level blocks of an eligible
\* name have distinct heads, and so have, at every depth below such a
\* block, the child blocks of one name; every name is rendered once.
C15_MergedSiblingsDistinct ==
  (bOut[1] # NoOut /\ bIn.format = "kdl") =>
     /\ WellListed(bMid)
     /\ \A name \in Keys(bMid.Children) :
          Eligible(name) =>
             /\ DistinctHeads(Get(bMid.Children, name))
             /\ \A i \in DOMAIN Get(bMid.Children, name) :
                  MergedBelow(Get(bMid.Children, name)[i])

\* a fragment that holds two top-level blocks of an eligible name with the
\* same head, whose children repeat a (name, head) too, has been merged
C15_Witness ==
  /\ bOut[1] # NoOut /\ bIn.format = "kdl"
  /\ \E f \in Range(bIn.files) : \E name \in Keys(f.Children) :
       /\ Eligible(name)
       /\ SameHeadTwice(Get(f.Children, name))
       /\ \E i \in DOMAIN Get(f.Children, name) :
            \E sub \in Keys(Get(f.Children, name)[i].Children) :
               SameHeadTwice(Get(Get(f.Children, name)[i].Children, sub))

\* the top-level blocks of a name in the order met: file by file, and in a
\* file in the order of the file
RECURSIVE Encountered(_, _)
Encountered(files, name) ==
  IF files = <<>> THEN <<>>
  ELSE (IF name \in Keys(Head(files).Children)
        THEN Get(Head(files).Children, name) ELSE <<>>)
       \o Encountered(Tail(files), name)

TopNames == UNION {Keys(bIn.files[i].Children) : i \in DOMAIN bIn.files}

\* the same block: name, head, properties and child blocks, whatever the
\* order the names were recorded in
RECURSIVE SameBlock(_, _)
SameBlock(x, y) ==
  /\ x.Name = y.Name /\ x.Head = y.Head /\ x.Props = y.Props
  /\ Keys(x.Children) = Keys(y.Children)
  /\ \A name \in Keys(x.Children) :
       /\ Len(Get(x.Children, name)) = Len(Get(y.Children, name))
       /\ \A i \in DOMAIN Get(x.Children, name) :
            SameBlock(Get(x.Children, name)[i], Get(y.Children, name)[i])

HeadsOf(list) == [i \in DOMAIN list |-> list[i].Head]

\* the property keys of the blocks of the list with the head
KeysWithHead(list, head) ==
  UNION {Keys(list[i].Props) : i \in {j \in DOMAIN list : list[j].Head = head}}

\* C16: a top-level name that is not eligible (section_keys is not empty
\* and lacks it) keeps every block of every fragment as a sibling of its
\* own, the same block, in the order met; an eligible name (one of
\* section_keys, or any name when section_keys is empty) has one block per
\* head, in the order the heads were first met, which holds the property
\* keys of all blocks met with that name and head.
C16_SectionKeysGate ==
  (bOut[1] # NoOut /\ bIn.format = "kdl") =>
     /\ Keys(bMid.Children) = TopNames
     /\ \A name \in TopNames :
          LET met == Encountered(bIn.files, name)
              got == Get(bMid.Children, name)
          IN IF Eligible(name)
             THEN /\ HeadsOf(got) = Occurrences(HeadsOf(met), 1, FALSE)
                  /\ \A i \in DOMAIN got :
                       Keys(got[i].Props) = KeysWithHead(met, got[i].Head)
             ELSE /\ Len(got) = Len(met)
                  /\ \A i \in DOMAIN got : SameBlock(got[i], met[i])

\* with section_keys naming n1 only, two fragments were blended that both
\* hold a block n2 with the same head, kept apart, and a block n1 with the
\* same head, merged
C16_Witness ==
  /\ bOut[1] # NoOut /\ bIn.format = "kdl"
  /\ bIn.rules.section_keys = {"n1"}
  /\ Len(bIn.files) = 2
  /\ \A i \in DOMAIN bIn.files : {"n1", "n2"} \subseteq Keys(bIn.files[i].Children)
  /\ SameHeadTwice(Get(bMid.Children, "n2"))
  /\ Len(Encountered(bIn.files, "n1")) > Len(Get(bMid.Children, "n1"))

\* the targets of BlendStructured: json, yaml and toml
InitJson ==
  /\ InitBuild
  /\ \/ bIn \in JsonInputs
     \/ bIn \in YamlInputs
     \/ bIn \in TomlInputs
SpecJson == InitJson /\ [][BuildRun]_vars

\* the merge of two values as the claims word it, for maps = deep
RECURSIVE DeepMerge(_, _, _)
DeepMerge(base, next, arrays) ==
  IF base.t = "nil" THEN next
  ELSE IF next.t = "nil" THEN base
  ELSE IF base.t = "map" /\ next.t = "map"
  THEN Map({<<k, IF k \in Keys(base.m) /\ k \in Keys(next.m)
                 THEN DeepMerge(Get(base.m, k), Get(next.m, k), arrays)
                 ELSE IF k \in Keys(base.m) THEN Get(base.m, k)
                 ELSE Get(next.m, k)>> : k \in Keys(base.m) \cup Keys(next.m)})
  ELSE IF base.t = "arr" /\ next.t = "arr"
  THEN IF arrays = "append" THEN Arr(base.a \o next.a)
       ELSE IF arrays = "unique_append" THEN Arr(uniqueAppend(base.a, next.a))
       ELSE next
  ELSE next

\* the fold over the fragments in plan order, blank files left out
RECURSIVE DeepFold(_, _, _)
DeepFold(acc, docs, arrays) ==
  IF docs = <<>> THEN acc
  ELSE DeepFold(IF Head(docs).t = "blank" THEN acc
                ELSE DeepMerge(acc, Head(docs), arrays),
                Tail(docs), arrays)

\* C17: with maps = deep the document serialized is the fold of the merge
\* over the fragments in plan order, where two mappings merge into the
\* mapping of the union of their keys, a key of both holding the merge of
\* its two values, a key of one its value; a null later value keeps the
\* earlier one; a scalar or a pair of different types gives the later one.
C17_DeepMerge ==
  (bOut[1] # NoOut /\ bIn.format \in StructuredFormats /\ bIn.rules.maps = "deep") =>
     LET want == DeepFold(Nil, bIn.files, bIn.rules.arrays)
     IN bMid = IF want.t = "nil" THEN Map(EmptyMap) ELSE want

\* two mappings were merged that share the key k1, under which both hold a
\* mapping, the later one with a null; each has a key the other lacks at
\* some depth
C17_Witness ==
  /\ bOut[1] # NoOut /\ bIn.format = "json" /\ bIn.rules.maps = "deep"
  /\ Len(bIn.files) = 2
  /\ \A i \in 1..2 : bIn.files[i].t = "map" /\ "k1" \in Keys(bIn.files[i].m)
                       /\ Get(bIn.files[i].m, "k1").t = "map"
  /\ Get(Get(bIn.files[2].m, "k1").m, "k1").t = "nil"
  /\ Get(Get(bIn.files[1].m, "k1").m, "k1").t = "str"
  /\ Get(Get(bMid.m, "k1").m, "k1").t = "str"

(***************************************************************************)
(* uniqueAppend on two arrays of elements of every kind.                   *)
(***************************************************************************)
Elements ==
  { Str("v1"), Str("1"), Nil, Bool(TRUE), Bool(FALSE),
    Num("int", 1), Num("int64", 1), Num("int", 2), Num("uint64", 1),
    Num("float64", 2), Num("float64", 3), Num("float32", 3),
    Arr(<<>>), Map(EmptyMap), Arr(<<Str("v1")>>) }

InitUnique ==
  /\ DaemonInit
  /\ WriteIdle
  /\ PlanIdle
  /\ bOut = <<NoOut, NoOut>>
  /\ bMid = <<>>
  /\ bIn \in {[format |-> "", merge |-> FALSE, rules |-> NoRules, files |-> <<a, b>>] :
               a, b \in SeqsOf(Elements, MaxElems)}

\* one call uniqueAppend(a, b)
UniqueRun ==
  /\ bMid = <<>>
  /\ bMid' = <<uniqueAppend(bIn.files[1], bIn.files[2])>>
  /\ UNCHANGED <<bIn, bOut, daemonVars, writeVars, planVars>>

SpecUnique == InitUnique /\ [][UniqueRun]_vars

\* the kind of a scalar and its value; the kind of a number is that of
\* signed integers, unsigned integers or floats, whatever its Go type
Scalar(x) == x.t \notin {"arr", "map"}
Kind(x) ==
  IF x.t \in IntTypes THEN "i" ELSE IF x.t \in UintTypes THEN "u"
  ELSE IF x.t \in FloatTypes THEN "f" ELSE x.t
TaggedKey(x) == <<Kind(x), x.s, x.n>>

\* the composite elements of e and the scalars whose key no earlier
\* element has, in order
RECURSIVE KeepFirstByKey(_, _)
KeepFirstByKey(e, i) ==
  IF i > Len(e) THEN <<>>
  ELSE (IF Scalar(e[i]) /\ \E j \in 1..(i - 1) :
                              Scalar(e[j]) /\ TaggedKey(e[j]) = TaggedKey(e[i])
        THEN <<>> ELSE <<e[i]>>)
       \o KeepFirstByKey(e, i + 1)

\* C18: in the result of uniqueAppend no two scalar elements have the same
\* kind and value, whatever Go types the numbers have; the result is the
\* base elements followed by the overlay elements, without the scalars
\* whose kind and value an earlier element has: every composite element
\* stays, in its position.
C18_UniqueAppend ==
  bMid # <<>> =>
     LET out == bMid[1]
     IN /\ \A i, j \in DOMAIN out :
             (Scalar(out[i]) /\ Scalar(out[j]) /\ TaggedKey(out[i]) = TaggedKey(out[j]))
                => i = j
        /\ out = KeepFirstByKey(bIn.files[1] \o bIn.files[2], 1)

\* the overlay repeats, as an int64, a number the base holds as an int,
\* next to an empty array the base holds too
C18_Witness ==
  /\ bMid # <<>>
  /\ bIn.files[1] = <<Num("int", 1), Arr(<<>>)>>
  /\ bIn.files[2] = <<Arr(<<>>), Num("int64", 1)>>
  /\ Len(bMid[1]) = 3

InitIni == InitBuild /\ bIn \in IniInputs
SpecIni == InitIni /\ [][BuildRun]_vars

\* the key lines of a sequence of lines, each with the section it is in, as
\* <<section, key, value>>: the section is that of the last header, the
\* global one before any
RECURSIVE EntriesOf(_, _)
EntriesOf(lines, sect) ==
  IF lines = <<>> THEN <<>>
  ELSE IF Head(lines).kind = "header" THEN EntriesOf(Tail(lines), Head(lines).key)
  ELSE IF Head(lines).kind = "kv"
  THEN << <<sect, Head(lines).key, Head(lines).val>> >> \o EntriesOf(Tail(lines), sect)
  ELSE EntriesOf(Tail(lines), sect)

\* the entries of the fragments in the order met; every file starts in the
\* global section
RECURSIVE EntriesOfAll(_)
EntriesOfAll(files) ==
  IF files = <<>> THEN <<>>
  ELSE EntriesOf(Head(files), "") \o EntriesOfAll(Tail(files))

\* the values of a key of a section, in the order of the entries
ValuesOf(es, sect, key) ==
  LET own == SelectSeq(es, LAMBDA e : e[1] = sect /\ e[2] = key)
  IN [i \in DOMAIN own |-> own[i][3]]

SectionKeys(es) == {<<es[i][1], es[i][2]>> : i \in DOMAIN es}

HeadersOf(lines) ==
  LET hs == SelectSeq(lines, LAMBDA l : l.kind = "header")
  IN [i \in DOMAIN hs |-> hs[i].key]

\* C19: the lines BlendINI writes hold every section once and, section by
\* section, the keys met in any fragment, those of an earlier fragment
\* only included; under append a key has a line for every value met, in
\* the order met; under last_wins it has one line, with the value met last.
C19_IniRepeatedKeys ==
  (bOut[1] # NoOut /\ bIn.format = "ini") =>
     LET met == EntriesOfAll(bIn.files)
         got == EntriesOf(bMid, "")
     IN /\ NoDup(HeadersOf(bMid))
        /\ SectionKeys(got) = SectionKeys(met)
        /\ \A sk \in SectionKeys(met) :
             LET vs == ValuesOf(met, sk[1], sk[2])
             IN ValuesOf(got, sk[1], sk[2]) =
                  IF bIn.rules.repeated_keys = "append" THEN vs ELSE <<vs[Len(vs)]>>

\* two fragments with the section n1 were blended, the second giving k1
\* another value and lacking k2
C19_Witness ==
  /\ bOut[1] # NoOut /\ bIn.format = "ini"
  /\ bIn.files = << <<Hdr("n1"), KV("k1", "v1"), KV("k2", "v2")>>,
                    <<Hdr("n1"), KV("k1", "v2")>> >>

\* the empty lines of a sequence of lines
BlankLines(lines) == SelectSeq(lines, LAMBDA l : l.kind = "empty")

\* C20: in the lines BlendINI writes every section block, the global one
\* and the last one included, ends with a single blank line: the last line
\* is blank, the line before every header is blank, and there are as many
\* blank lines as blocks, the global block and one for every header.
C20_BlockSeparators ==
  (bOut[1] # NoOut /\ bIn.format = "ini") =>
     /\ bMid # <<>> /\ bMid[Len(bMid)] = EmptyLine
     /\ \A i \in DOMAIN bMid :
          (bMid[i].kind = "header" /\ i > 1) => bMid[i - 1] = EmptyLine
     /\ Len(BlankLines(bMid)) = Len(HeadersOf(bMid)) + 1

\* the tree parseKDL returns for a file with the key-value lines kvs at its
\* top level, outside any block, and the top-level blocks cs: outside a
\* block cur is the root, whose properties the lines become
TopFragment(kvs, cs) == WithChildren(WithProps(newNode("__root__", ""), kvs), cs)

TopLines == {<<>>, << <<"k1", "v1">> >>, << <<"k2", "v2">>, <<"k1", "v2">> >>}

KdlTopInputs ==
  {[format |-> "kdl", merge |-> TRUE, rules |-> MergeRules("", "", keys, sk, ""),
    files |-> fs] :
     keys \in {"last_wins", "first_wins", "append"}, sk \in {{}, {"n1"}},
     fs \in NonEmptySeqsOf({TopFragment(kvs, cs) :
                              kvs \in TopLines, cs \in SeqsOf(KdlBlocks, MaxBlocks - 1)},
                           MaxFiles)}

InitKdlTop ==
  /\ DaemonInit
  /\ WriteIdle
  /\ PlanIdle
  /\ bOut = <<NoOut, NoOut>>
  /\ bMid = <<>>
  /\ bIn \in KdlTopInputs
SpecKdlTop == InitKdlTop /\ [][BuildRun]_vars

\* the keys of the property lines of n and of the blocks below it, each with
\* the names and heads of the blocks it stands in, outermost first
\* the blocks below n, each with its name
ChildrenOf(n) ==
  UNION {{<<name, Get(n.Children, name)[i]>> : i \in DOMAIN Get(n.Children, name)} :
           name \in Keys(n.Children)}

RECURSIVE KeysIn(_, _)
KeysIn(n, path) ==
  {<<path, k>> : k \in Keys(n.Props)} \cup
  UNION {KeysIn(c[2], Append(path, <<c[1], c[2].Head>>)) : c \in ChildrenOf(n)}

\* the keys renderKDL writes for the root: those of its blocks, the root
\* having no line of its own in the output
KeysRendered(root) ==
  UNION {KeysIn(c[2], <<<<c[1], c[2].Head>>>>) : c \in ChildrenOf(root)}

\* C30: every key of a key-value line of a fragment, at the top level of the
\* fragment or in a block at any depth, is written by BlendKDL, at the same
\* place.
C30_NoPropertyLost ==
  (bOut[1] # NoOut /\ bIn.format = "kdl") =>
     \A i \in DOMAIN bIn.files : KeysIn(bIn.files[i], <<>>) \subseteq KeysRendered(bMid)
====
